---------------------------- MODULE Spec2Model ----------------------------
(***************************************************************************)
(* discord-watchdog: the probe scheduler (ping.rs, ping_task), the         *)
(* hysteresis state machine (status.rs, update_status), the notification   *)
(* pass over the registered servers (notify_status_change), the            *)
(* per-server status message reconciliation (update_embed), persistence    *)
(* (lib.rs, save_data / SavedData::load_from), the administration         *)
(* commands reserved to the master server (commands/config.rs,             *)
(* commands/server.rs, commands/debug.rs), which snapshot the shared state *)
(* concurrently with the probe task, the commands open to every server     *)
(* (/server register, /config channel), run by a second handler at the     *)
(* same time, and the message templates (status.rs, replace_templates).    *)
(*                                                                         *)
(* The probe task is one tokio task: its position is pc.  Every .await of  *)
(* the source is a point where the other tasks (command handlers on the    *)
(* multi-threaded runtime) and the outside world (timer, Discord users)    *)
(* may take steps, so the task is modelled one await at a time.            *)
(***************************************************************************)
EXTENDS Integers, Sequences, FiniteSets, TLC

(***************************************************************************)
(* Bounds of the model.                                                    *)
(***************************************************************************)
\* required_attempts_before_notification is drawn from 1..MaxThreshold
MaxThreshold == 2
\* the timer stops firing once MaxFlips status changes were confirmed
MaxFlips == 2
\* number of administration commands (server show) issued
MaxCommands == 1
\* number of commands a second, concurrent handler serves
MaxPeerCommands == 1
\* number of status messages Discord users delete
MaxExternalDeletes == 1
\* the interval and the timeout are drawn from 1..MaxSeconds seconds
MaxSeconds == 2
\* the templates given to replace_templates have up to MaxTemplateLen
\* characters, the resource names up to MaxNameLen
MaxTemplateLen == 6
MaxNameLen == 2
\* the registered servers (GuildId), iterated in ascending order
Servers == {1, 2}

(***************************************************************************)
(* Program constants.                                                      *)
(***************************************************************************)
\* attempts_before_notification is an AtomicU8: fetch_add wraps at 2^8
U8Modulus == 256
\* icmp_sequence is a u16 (ping.rs 15)
U16Modulus == 65536
\* lib.rs 24-26
DEFAULT_ATTEMPTS_BEFORE_NOTIFICATION == 3
DEFAULT_TIMEOUT_SECS == 5
DEFAULT_INTERVAL_BETWEEN_ATTEMPTS_SECS == 10
\* lib.rs 22-23: "BYOND" is text without a placeholder character, written
\* as one character of plain text; the address is opaque
DEFAULT_RESOURCE_NAME == <<"a">>
DEFAULT_RESOURCE_ADDR == "hub.byond.com"

Up == "Up"
Down == "Down"
Unknown == "Unknown"
ResourceStatus == {Up, Down, Unknown}

\* Option::None for a MessageId / ChannelId; real ids are positive
None == 0

\* the locks of AppData the probe task can hold across an await
ConfigLock == "config"
MessagesLock == "used_messages"

VARIABLES
    \* ---- AppData (lib.rs 58-64)
    status,                         \* RwLock<ResourceStatus>
    used_messages,                  \* RwLock<BTreeMap<GuildId, ServerUsedMessages>>
    attempts_before_notification,   \* AtomicU8
    last_status_change,             \* RwLock<Timestamp>
    required_attempts_before_notification, \* config.ping_config
    server_configs,                 \* config.server_configs: GuildId -> channel
    \* ---- the probe task (ping_task and what it awaits)
    pc,                             \* position of the task
    sample,                         \* the status argument of update_status
    old_status,                     \* local of update_status (line 18)
    server_id,                      \* loop variable of notify_status_change
    held,                           \* lock guards the task holds
    timer_elapsed,                  \* the interval's next tick is due
    \* ---- Discord (the outside world)
    messages,                       \* live status messages: [id, server]
    next_message_id,                \* ids are fresh (snowflakes)
    external_deletes,               \* deletions by Discord users so far
    \* ---- Data.toml and the command handler running save_data
    saved_data,                     \* content of the file
    cmd_pc,                         \* position of the command handler
    new_saved_data,                 \* its SavedData under construction
    commands_issued,
    task_saved_data,                \* the SavedData of the probe task's save_data
    \* ---- history (not program state)
    probes_in_flight,               \* healthcheck futures not yet completed
    samples_fed,                    \* update_status calls of this iteration
    streak,                         \* consecutive mismatching samples
    last_result,                    \* what the last update_status call did
    previous_attempts,              \* the counter when that call began
    snapshot_flip,                  \* flips when the command read the status
    flips,                          \* confirmed status changes so far
    notify_log,                     \* (old, new) of every notify_status_change call
    passes_done,                    \* notify_status_change calls that returned
    save_calls,                     \* save_data calls of update_status that returned
    calls,                          \* external calls of the pass in progress
    deleted_by_reconciler,          \* ids update_embed deleted itself
    probe_outcome,                  \* how the probe behind `sample` ended
    \* ---- the rest of Config and PingConfig (lib.rs 151-156, 187-193)
    master_server,                  \* Option<GuildId>
    max_servers,                    \* usize
    resource_name,                  \* String, as a sequence of characters
    resource_addr,                  \* String
    interval_between_attempts,      \* Duration, in seconds
    timeout,                        \* Duration, in seconds
    \* ---- locals of ping_task (ping.rs 13, 23-24)
    interval_period,                \* period of the current `interval`
    probe_timeout,                  \* `timeout` as last read from the config
    until_tick,                     \* seconds until its next tick is due
    \* ---- the administration command in progress
    cmd_name,                       \* which command the handler runs
    cmd_guild,                      \* ctx.guild_id() of the invocation
    master_backup,                  \* local of server remove (server.rs)
    \* ---- one call of replace_templates (status.rs 299-309)
    tpl_pc,                         \* "input" before the call, "done" after
    message,                        \* the template
    role_id,                        \* Option<RoleId>
    output,                         \* the returned String
    \* ---- a second command handler, running concurrently with the first
    peer_pc,                        \* its position
    peer_name,                      \* the command it was last given
    peer_guild,                     \* ctx.guild_id() of its invocation
    peer_saved_data,                \* its SavedData under construction
    peers_issued,
    \* ---- the notification pass in progress (status.rs 52-57)
    embed,                          \* local of notify_status_change
    pass_config,                    \* history: the configuration at its start
    pass_pointers,                  \* history: the pointers at its start
    embeds_sent,                    \* history: the embeds sent in that pass
    \* ---- the probe loop (ping.rs 15-20)
    icmp_sequence,                  \* u16 local of ping_task
    overflow_checks,                \* the build panics on integer overflow
    preceding_sample,               \* history: the sample before the one
                                    \* update_status is working on
    \* ---- the wait queue of the configuration lock (tokio RwLock, lib.rs 63)
    write_queued                    \* the invocation whose write() is queued

app_vars == <<status, used_messages, attempts_before_notification,
              last_status_change, required_attempts_before_notification,
              server_configs>>
task_vars == <<pc, sample, old_status, server_id, held, timer_elapsed>>
world_vars == <<messages, next_message_id, external_deletes>>
cmd_vars == <<saved_data, cmd_pc, new_saved_data, commands_issued,
              task_saved_data>>
hist_vars == <<probes_in_flight, samples_fed, streak, last_result,
               previous_attempts,
               snapshot_flip, flips,
               notify_log, passes_done, save_calls, calls,
               deleted_by_reconciler>>
config_vars == <<master_server, max_servers, resource_name, resource_addr,
                 interval_between_attempts, timeout>>
timer_vars == <<interval_period, probe_timeout, until_tick>>
admin_vars == <<cmd_name, cmd_guild, master_backup>>
template_vars == <<tpl_pc, message, role_id, output>>
peer_vars == <<peer_pc, peer_name, peer_guild, peer_saved_data,
               peers_issued>>
pass_vars == <<embed, pass_config, pass_pointers, embeds_sent>>
\* what only replace_templates, the second handler and the pass touch
loop_vars == <<icmp_sequence, overflow_checks, preceding_sample>>
lock_vars == <<write_queued>>
aside_vars == <<template_vars, peer_vars, pass_vars, loop_vars, lock_vars>>
\* what the notification pass and the reconciler neither read nor write
rest_vars == <<config_vars, timer_vars, admin_vars, aside_vars,
               probe_outcome>>
vars == <<app_vars, task_vars, world_vars, cmd_vars, hist_vars, rest_vars>>

(***************************************************************************)
(* Shared data types.                                                      *)
(***************************************************************************)
\* Timestamp::now(): time is read as the number of confirmed changes so
\* far, so the timestamps of different changes differ and increase.
Now == flips

\* SavedData::load_from builds this record field by field (lib.rs 128-134)
SavedDataOf(st, msgs, att, ts, cfg) ==
    [status |-> st, used_messages |-> msgs,
     attempts_before_notification |-> att, last_status_change |-> ts,
     config |-> cfg]

\* Config and its PingConfig (lib.rs 150-156, 186-193)
ConfigOf(master, max, name, addr, req, tmo, intv, srv) ==
    [master_server |-> master, max_servers |-> max,
     ping_config |-> [resource_name |-> name, resource_addr |-> addr,
                      required_attempts_before_notification |-> req,
                      timeout |-> tmo, interval_between_attempts |-> intv],
     server_configs |-> srv]

\* the configuration AppData holds
CurrentConfig ==
    ConfigOf(master_server, max_servers, resource_name, resource_addr,
             required_attempts_before_notification, timeout,
             interval_between_attempts, server_configs)

\* the whole AppData read in one go
CurrentData ==
    SavedDataOf(status, used_messages, attempts_before_notification,
                last_status_change, CurrentConfig)

\* AppData::default() / SavedData::default(): Unknown, no pointers, counter 0
DefaultData(cfg) ==
    SavedDataOf(Unknown, [s \in Servers |-> None], 0, 0, cfg)

\* the title generate_embed gives each status (status.rs 270-287)
TitleSuffix(st) ==
    CASE st = Up -> " is online!"
      [] st = Down -> " is offline!"
      [] OTHER -> " status is unknown..."

\* generate_embed (status.rs 263-297): the title from the resource name and
\* the status, the fields Since and Address
generate_embed(name, new_status, addr, since) ==
    [title |-> name \o <<TitleSuffix(new_status)>>,
     Since |-> since, Address |-> addr]

\* before the first pass there is no embed
NoEmbed == [title |-> <<>>, Since |-> 0, Address |-> ""]

\* ServerConfig.channel: not configured, or the channel of that server
\* (a channel is identified with the server it belongs to)
ServerConfigs ==
    {f \in [Servers -> {None} \cup Servers] : \A s \in Servers : f[s] \in {None, s}}

\* the value of icmp_sequence where the specification does not follow it
NotFollowed == -1

(***************************************************************************)
(* Init: a fresh start (main.rs init_data with no Data.toml): the defaults *)
(* of AppData, the configuration as loaded from Config.toml, saved once.   *)
(***************************************************************************)
InitData(configs) ==
    /\ status = Unknown
    /\ used_messages = [s \in Servers |-> None]
    /\ attempts_before_notification = 0
    /\ last_status_change = 0
    /\ required_attempts_before_notification \in 1..MaxThreshold
    /\ server_configs \in configs
    /\ pc = "idle"
    /\ sample = Unknown
    /\ old_status = Unknown
    /\ server_id = None
    /\ held = {}
    /\ timer_elapsed = TRUE
    /\ messages = {}
    /\ next_message_id = 1
    /\ external_deletes = 0
    /\ saved_data = DefaultData(CurrentConfig)
    /\ cmd_pc = "none"
    /\ new_saved_data = saved_data
    /\ task_saved_data = saved_data
    /\ commands_issued = 0
    /\ probes_in_flight = 0
    /\ samples_fed = 0
    /\ streak = 0
    /\ last_result = "none"
    /\ previous_attempts = 0
    /\ snapshot_flip = 0
    /\ flips = 0
    /\ notify_log = <<>>
    /\ passes_done = 0
    /\ save_calls = 0
    /\ calls = <<>>
    /\ deleted_by_reconciler = {}
    /\ probe_outcome = "none"

\* the master server and the limit of Config.toml, the name and the address
\* of PingConfig::default() (lib.rs 195-204)
InitConfig ==
    /\ master_server = 1
    /\ max_servers = Cardinality(Servers)
    /\ resource_name = DEFAULT_RESOURCE_NAME
    /\ resource_addr = DEFAULT_RESOURCE_ADDR

\* the timing of PingConfig::default()
InitTiming ==
    /\ interval_between_attempts = DEFAULT_INTERVAL_BETWEEN_ATTEMPTS_SECS
    /\ timeout = DEFAULT_TIMEOUT_SECS

\* ping.rs 13-14: the interval before the first tick, which is immediate
InitTimer ==
    /\ interval_period = DEFAULT_INTERVAL_BETWEEN_ATTEMPTS_SECS
    /\ probe_timeout = None
    /\ until_tick = 0

\* no command is being handled
InitAdmin ==
    /\ cmd_name = "none"
    /\ cmd_guild = None
    /\ master_backup = <<>>

\* replace_templates is not under study
InitTemplate ==
    /\ tpl_pc = "done"
    /\ message = <<>>
    /\ role_id = None
    /\ output = <<>>

\* no second command is being handled
InitPeer ==
    /\ peer_pc = "none"
    /\ peer_name = "none"
    /\ peer_guild = None
    /\ peer_saved_data = saved_data
    /\ peers_issued = 0

\* the sequence number of the probes is not followed, and its addition is
\* taken to succeed
InitLoop ==
    /\ icmp_sequence = NotFollowed
    /\ overflow_checks = FALSE

\* ping.rs 15: the sequence number starts at 0; it is also taken up two
\* probes before the last value, where a resource whose every probe
\* failed with an error (status still Unknown) has brought it.  The
\* program was built with or without overflow checks (the dev and release
\* profiles of cargo).
InitSequence ==
    /\ icmp_sequence \in {0, U16Modulus - 2}
    /\ overflow_checks \in BOOLEAN

\* no write of the configuration is waiting
InitQueue == write_queued = 0

\* update_status is not at work
NoSample == "none"

\* no notification pass has begun
InitPass ==
    /\ embed = NoEmbed
    /\ pass_config = CurrentConfig
    /\ pass_pointers = used_messages
    /\ embeds_sent = {}

InitWith(configs) ==
    /\ InitConfig
    /\ InitTiming
    /\ InitTimer
    /\ InitAdmin
    /\ InitTemplate
    /\ InitData(configs)
    /\ InitPeer
    /\ InitPass
    /\ InitLoop
    /\ preceding_sample = NoSample
    /\ InitQueue

\* every server has a channel, or only the first one has none
Init == InitWith({f \in ServerConfigs : \A s \in Servers : s > 1 => f[s] /= None})

\* no server has configured a channel yet
InitNoChannel == InitWith({f \in ServerConfigs : \A s \in Servers : f[s] = None})

(***************************************************************************)
(* ProbeScheduler: ping_task (ping.rs 11-50).                              *)
(***************************************************************************)
\* time::interval: the period passed since the interval was created.  The
\* timer runs on its own, also while a probe is in flight.
TimerFire ==
    /\ ~timer_elapsed
    /\ timer_elapsed' = TRUE
    /\ until_tick' = 0
    /\ UNCHANGED <<app_vars, pc, sample, old_status, server_id, held,
                   world_vars, cmd_vars, hist_vars>>
    /\ UNCHANGED <<config_vars, interval_period, probe_timeout, admin_vars,
                   aside_vars, probe_outcome>>

\* the same timer second by second: the tick is due when the period the
\* interval was created with has passed
TimePasses ==
    /\ ~timer_elapsed
    /\ until_tick' = until_tick - 1
    /\ timer_elapsed' = (until_tick - 1 = 0)
    /\ UNCHANGED <<app_vars, pc, sample, old_status, server_id, held,
                   world_vars, cmd_vars, hist_vars>>
    /\ UNCHANGED <<config_vars, interval_period, probe_timeout, admin_vars,
                   aside_vars, probe_outcome>>

\* faulty variant of TickReady: a tick is served wherever the task is, as if every
\* tick spawned its own probe
TickReady_Unawaited == timer_elapsed

\* the loop is at `interval.tick().await` (line 19) and the tick is due
TickReady == pc = "idle" /\ timer_elapsed

\* faulty variant of PeriodAfterTick: the interval created before the loop is
\* kept and the configuration is not consulted
PeriodAfterTick_Stale == interval_period

\* lines 23 and 28: the new interval has the period the configuration holds
\* when the tick completes
PeriodAfterTick == interval_between_attempts

\* line 20: `icmp_sequence += 1` on a u16 exceeds u16::MAX
AddOverflows(seq) == seq /= NotFollowed /\ seq + 1 >= U16Modulus

\* line 20 where the addition does not panic: the sum, wrapped to 16 bits
NextSequence(seq) ==
    IF seq = NotFollowed THEN NotFollowed ELSE (seq + 1) % U16Modulus

\* lines 19-31: the tick completes, the sequence number is incremented, the
\* configuration is re-read, a new interval is created (its first tick is
\* immediate) and healthcheck starts.  In a build with overflow checks the
\* increment of u16::MAX panics: the task ends there, and main halts the
\* program (main.rs 88-95).
Tick ==
    /\ TickReady
    /\ flips < MaxFlips
    /\ timer_elapsed' = FALSE
    /\ IF AddOverflows(icmp_sequence) /\ overflow_checks
       THEN /\ pc' = "panicked"
            /\ UNCHANGED <<icmp_sequence, timer_vars, probes_in_flight,
                           samples_fed>>
       ELSE /\ icmp_sequence' = NextSequence(icmp_sequence)
            /\ pc' = "probing"
            /\ interval_period' = PeriodAfterTick
            /\ until_tick' = PeriodAfterTick
            /\ probe_timeout' = timeout
            /\ probes_in_flight' = probes_in_flight + 1
            /\ samples_fed' = 0
    /\ UNCHANGED <<app_vars, sample, old_status, server_id, held, world_vars,
                   cmd_vars, streak, last_result,
                   previous_attempts, snapshot_flip, flips,
                   notify_log, passes_done, save_calls, calls,
                   deleted_by_reconciler>>
    /\ UNCHANGED <<config_vars, admin_vars, template_vars, peer_vars,
                   pass_vars, overflow_checks, preceding_sample, lock_vars,
                   probe_outcome>>

\* how one probe can end (ping.rs 52-87): resolve_ip fails (line 59), the
\* ICMP client cannot be created (line 64), the ping is answered, times out,
\* or fails with another SurgeError (lines 68-86)
ProbeOutcomes ==
    {"resolve_error", "client_error", "reply", "timeout", "ping_error"}

\* the probe failures other than a timeout
ProbeErrors == {"resolve_error", "client_error", "ping_error"}

\* faulty variant of Healthcheck: a timeout is returned as an error
Healthcheck_TimeoutIsError(outcome) ==
    CASE outcome = "reply" -> "Ok(true)"
      [] OTHER -> "Err"

\* the value healthcheck returns (ping.rs 59, 64, 75-85)
Healthcheck(outcome) ==
    CASE outcome = "resolve_error" -> "Err"
      [] outcome = "client_error" -> "Err"
      [] outcome = "reply" -> "Ok(true)"
      [] outcome = "timeout" -> "Ok(false)"
      [] OTHER -> "Err"

\* the match of ping_task on the response (lines 33-45)
Classify(response) ==
    CASE response = "Ok(true)" -> Up
      [] response = "Ok(false)" -> Down
      [] OTHER -> Unknown

\* faulty variant of AfterResponse: an error of healthcheck leaves the loop
\* and ends the task
AfterResponse_FailFast(response) ==
    IF response = "Err" THEN "stopped" ELSE "update_status"

\* lines 33-45: every arm of the match calls update_status, and the loop
\* has no break and no return
AfterResponse(response) == "update_status"

\* healthcheck completes and its outcome is handed to update_status
ProbeDone(outcome) ==
    /\ pc = "probing"
    /\ pc' = AfterResponse(Healthcheck(outcome))
    /\ sample' = Classify(Healthcheck(outcome))
    /\ probe_outcome' = outcome
    /\ probes_in_flight' = probes_in_flight - 1
    /\ samples_fed' = samples_fed + 1
    /\ preceding_sample' = sample
    /\ UNCHANGED <<app_vars, old_status, server_id, held, timer_elapsed,
                   world_vars, cmd_vars, streak, last_result,
                   previous_attempts, snapshot_flip,
                   flips, notify_log, passes_done, save_calls, calls,
                   deleted_by_reconciler>>
    /\ UNCHANGED <<config_vars, timer_vars, admin_vars, template_vars,
                   peer_vars, pass_vars, icmp_sequence, overflow_checks,
                   lock_vars>>

(***************************************************************************)
(* StatusDebouncer: update_status (status.rs 17-44).                       *)
(***************************************************************************)
\* faulty variant of CounterAfterMatch: the counter is not reset
CounterAfterMatch_Keep(counter) == counter

\* lines 20-21: store(0) on a sample equal to the confirmed status
CounterAfterMatch(counter) == 0

\* faulty variant of FetchAdd: a sample of another status than the one
\* before starts the count again
FetchAdd_Restart(counter) == 1

\* line 33: fetch_add(1) on an AtomicU8 wraps
FetchAdd(counter) == (counter + 1) % U8Modulus

\* faulty variant of FlipConfirmed: the comparison is inverted
FlipConfirmed_Inverted(previous, required) == previous <= required

\* lines 31-34: fetch_add returns the value before the addition
FlipConfirmed(previous, required) == previous >= required

\* faulty variant of AfterTimestamp: the notification is not awaited and the loop
\* goes on to its next tick
AfterTimestamp_Detached == "idle"

\* line 41: notify_status_change(...).await, then line 42
AfterTimestamp == "notify_status_change"

\* faulty variant of StatusUnchanged: every sample counts as a change
StatusUnchanged_Never(new, old) == FALSE

\* line 19: `status == old_status`, the sample against the confirmed status
StatusUnchanged(new, old) == new = old

\* lines 18-35
UpdateStatus ==
    /\ pc = "update_status"
    /\ old_status' = status
    /\ previous_attempts' = attempts_before_notification
    /\ probe_outcome' = "none"
    /\ IF StatusUnchanged(sample, status)
       THEN /\ attempts_before_notification' =
                   CounterAfterMatch(attempts_before_notification)
            /\ streak' = 0
            /\ last_result' = "match"
            /\ pc' = "idle"
       ELSE /\ attempts_before_notification' =
                   FetchAdd(attempts_before_notification)
            /\ streak' = streak + 1
            /\ IF FlipConfirmed(attempts_before_notification,
                                required_attempts_before_notification)
               THEN /\ pc' = "flip_counter"
                    /\ last_result' = "flip"
               ELSE /\ pc' = "idle"
                    /\ last_result' = "pending"
    /\ UNCHANGED <<status, used_messages, last_status_change,
                   required_attempts_before_notification, server_configs,
                   sample, server_id, held, timer_elapsed, world_vars,
                   cmd_vars, probes_in_flight, samples_fed, snapshot_flip,
                   flips, notify_log, passes_done, save_calls, calls,
                   deleted_by_reconciler>>
    /\ preceding_sample' =
           IF pc' = "flip_counter" THEN preceding_sample ELSE NoSample
    /\ UNCHANGED <<config_vars, timer_vars, admin_vars, template_vars,
                   peer_vars, pass_vars, icmp_sequence, overflow_checks,
                   lock_vars>>

\* lines 37-38
FlipCounter ==
    /\ pc = "flip_counter"
    /\ attempts_before_notification' = 0
    /\ pc' = "flip_status"
    /\ UNCHANGED <<status, used_messages, last_status_change,
                   required_attempts_before_notification, server_configs,
                   sample, old_status, server_id, held, timer_elapsed,
                   world_vars, cmd_vars, hist_vars>>
    /\ UNCHANGED rest_vars

\* line 39
FlipStatus ==
    /\ pc = "flip_status"
    /\ status' = sample
    /\ flips' = flips + 1
    /\ streak' = 0
    /\ pc' = "flip_timestamp"
    /\ UNCHANGED <<used_messages, attempts_before_notification,
                   last_status_change, required_attempts_before_notification,
                   server_configs, sample, old_status, server_id, held,
                   timer_elapsed, world_vars, cmd_vars, probes_in_flight,
                   samples_fed, last_result,
                   previous_attempts, snapshot_flip, notify_log,
                   passes_done, save_calls, calls, deleted_by_reconciler>>
    /\ UNCHANGED rest_vars

\* line 40
FlipTimestamp ==
    /\ pc = "flip_timestamp"
    /\ last_status_change' = Now
    /\ pc' = AfterTimestamp
    /\ UNCHANGED <<status, used_messages, attempts_before_notification,
                   required_attempts_before_notification, server_configs,
                   sample, old_status, server_id, held, timer_elapsed,
                   world_vars, cmd_vars, hist_vars>>
    /\ UNCHANGED rest_vars

(***************************************************************************)
(* NotificationDispatcher: notify_status_change (status.rs 46-152).        *)
(***************************************************************************)
\* one entry of the history of the pass: the server, the operation, and
\* whether the external call succeeded
Call(s, op, ok) == <<s, op, ok>>

\* faulty variant of Continue: a failure ends the loop over the servers
Continue_Abort == "notify_end"

\* `continue` in the loop over the servers (lines 73, 81, 116, 142)
Continue == "for_servers"

\* faulty variant of ReturnFromUpdateEmbed: the reconciliation of the server
\* is attempted again
ReturnFromUpdateEmbed_Retry == "update_embed"

\* update_embed is the last statement of the loop body (lines 87-145)
ReturnFromUpdateEmbed == "for_servers"

\* the BTreeMap is iterated in ascending key order
RemainingServers == {s \in DOMAIN server_configs : s > server_id}

\* faulty variant of NextServer: the map is iterated from its largest key
NextServer_Largest ==
    CHOOSE s \in RemainingServers : \A r \in RemainingServers : s >= r

NextServer == CHOOSE s \in RemainingServers : \A r \in RemainingServers : s <= r

\* faulty variant of TransitionArm: the arms for Unknown come last, so a
\* recovery from Unknown is announced like a recovery from Down
TransitionArm_UnknownLast(old, new) ==
    CASE new = Up -> "send_announcement"
      [] new = Down -> "send_announcement"
      [] OTHER -> "update_embed"

\* the match on (old_status, new_status), lines 85-148
TransitionArm(old, new) ==
    CASE new = Unknown -> "update_embed"
      [] old = Unknown -> "update_embed"
      [] old = Up /\ new = Down -> "send_announcement"
      [] old = Down /\ new = Up -> "send_announcement"
      [] OTHER -> "panicked"

\* the positions of a handler whose next statement is config.write().await
\* (config.rs 129, 222, 265, 297; server.rs 45, 105, 192)
WritePositions ==
    {"name", "interval", "timeout", "attempts", "limit", "register",
     "remove_all_write"}

\* the write() of the handler is in the wait queue of the lock
WriterWaiting ==
    /\ write_queued /= 0
    /\ write_queued = commands_issued
    /\ cmd_pc \in WritePositions

\* faulty variant of ConfigReadable: readers are admitted past a waiting
\* writer
ConfigReadable_ReadPreferring == TRUE

\* tokio's RwLock is fair: a read() that arrives after a queued write()
\* waits behind it, also when the lock is read-held
ConfigReadable == ~WriterWaiting

\* line 57 follows the reads of lines 54-55
AfterReads == "for_servers"

\* lines 54-57: the configuration is read-locked a second time for the
\* address, while the guard of line 52 is still held; the timestamp is read
\* and the embed of the pass is built
NotifyReadAddr ==
    /\ pc = "read_addr"
    /\ ConfigReadable
    /\ embed' = generate_embed(pass_config.ping_config.resource_name, sample,
                               resource_addr, last_status_change)
    /\ pc' = AfterReads
    /\ UNCHANGED <<app_vars, sample, old_status, server_id, held,
                   timer_elapsed, world_vars, cmd_vars, hist_vars>>
    /\ UNCHANGED <<config_vars, timer_vars, admin_vars, template_vars,
                   peer_vars, loop_vars, lock_vars, probe_outcome,
                   pass_config, pass_pointers, embeds_sent>>

\* lines 52-53: the configuration read guard is taken and kept; the name
\* is copied under it
NotifyBegin ==
    /\ pc = "notify_status_change"
    /\ held' = held \cup {ConfigLock}
    /\ UNCHANGED embed
    /\ pass_config' = CurrentConfig
    /\ pass_pointers' = used_messages
    /\ embeds_sent' = {}
    /\ notify_log' = Append(notify_log, <<old_status, sample>>)
    /\ server_id' = None
    /\ calls' = <<>>
    /\ pc' = "read_addr"
    /\ UNCHANGED <<app_vars, sample, old_status, timer_elapsed, world_vars,
                   cmd_vars, probes_in_flight, samples_fed, streak,
                   last_result,
                   previous_attempts, snapshot_flip, flips, passes_done, save_calls,
                   deleted_by_reconciler>>
    /\ preceding_sample' = NoSample
    /\ UNCHANGED <<config_vars, timer_vars, admin_vars, template_vars,
                   peer_vars, icmp_sequence, overflow_checks, lock_vars,
                   probe_outcome>>

\* line 59-83: the next server of the map, or the end of the loop
ForServers ==
    /\ pc = "for_servers"
    /\ IF RemainingServers = {}
       THEN /\ pc' = "notify_end"
            /\ UNCHANGED <<server_id, calls>>
       ELSE /\ server_id' = NextServer
            /\ calls' = Append(calls, Call(NextServer, "visit", TRUE))
            /\ pc' = IF server_configs[NextServer] = None
                     THEN Continue
                     ELSE "get_channel"
    /\ UNCHANGED <<app_vars, sample, old_status, held, timer_elapsed,
                   world_vars, cmd_vars, probes_in_flight, samples_fed,
                   streak, last_result,
                   previous_attempts, snapshot_flip, flips, notify_log,
                   passes_done, save_calls, deleted_by_reconciler>>
    /\ UNCHANGED rest_vars

\* faulty variant of AfterChannel: a channel that could not be fetched is
\* used all the same
AfterChannel_IgnoreError(ok, old, new) == TransitionArm(old, new)

\* lines 65-74 and 85: without the channel the server is skipped
AfterChannel(ok, old, new) ==
    IF ok THEN TransitionArm(old, new) ELSE Continue

\* lines 64-75 and the match of line 85
GetChannelDone(ok) ==
    /\ pc = "get_channel"
    /\ calls' = Append(calls, Call(server_id, "get_channel", ok))
    /\ pc' = AfterChannel(ok, old_status, sample)
    /\ UNCHANGED <<app_vars, sample, old_status, server_id, held,
                   timer_elapsed, world_vars, cmd_vars, probes_in_flight,
                   samples_fed, streak, last_result,
                   previous_attempts, snapshot_flip, flips,
                   notify_log, passes_done, save_calls,
                   deleted_by_reconciler>>
    /\ UNCHANGED rest_vars

\* faulty variant of AnnouncementOf: the two templates are exchanged
AnnouncementOf_Swapped(old, new) ==
    IF old = Up /\ new = Down THEN "send_up_message" ELSE "send_down_message"

\* lines 92-97 and 121-123: the arm (Up, Down) sends the server's
\* down_message, the arm (Down, Up) its up_message
AnnouncementOf(old, new) ==
    IF old = Up /\ new = Down THEN "send_down_message" ELSE "send_up_message"

\* faulty variant of AfterAnnouncement: the status message is reconciled
\* although the announcement failed
AfterAnnouncement_Regardless(ok) == "update_embed"

\* lines 102-119 and 128-145: `continue` on a failed send, update_embed
\* after a successful one
AfterAnnouncement(ok) == IF ok THEN "update_embed" ELSE Continue

\* lines 98-118 and 124-144: the up or down message of the server
SendAnnouncementDone(ok) ==
    /\ pc = "send_announcement"
    /\ calls' = Append(calls, Call(server_id,
                                   AnnouncementOf(old_status, sample), ok))
    /\ pc' = AfterAnnouncement(ok)
    /\ UNCHANGED <<app_vars, sample, old_status, server_id, held,
                   timer_elapsed, world_vars, cmd_vars, probes_in_flight,
                   samples_fed, streak, last_result,
                   previous_attempts, snapshot_flip, flips,
                   notify_log, passes_done, save_calls,
                   deleted_by_reconciler>>
    /\ UNCHANGED rest_vars

\* line 151: drop(config_lock), and the call returns
NotifyEnd ==
    /\ pc = "notify_end"
    /\ held' = held \ {ConfigLock}
    /\ passes_done' = passes_done + 1
    /\ pc' = "save_data"
    /\ UNCHANGED <<app_vars, sample, old_status, server_id, timer_elapsed,
                   world_vars, cmd_vars, probes_in_flight, samples_fed,
                   streak, last_result,
                   previous_attempts, snapshot_flip, flips, notify_log,
                   save_calls, calls, deleted_by_reconciler>>
    /\ embeds_sent' = {}
    /\ UNCHANGED <<config_vars, timer_vars, admin_vars, template_vars,
                   peer_vars, loop_vars, lock_vars, probe_outcome, embed,
                   pass_config, pass_pointers>>

(***************************************************************************)
(* MessageReconciler: update_embed (status.rs 154-261).                    *)
(***************************************************************************)
\* the live status message the pointer of the current server refers to
PointedMessage ==
    {m \in messages : m.id = used_messages[server_id] /\ m.server = server_id}

\* lines 163-166: the write guard of used_messages is taken and kept until
\* the function returns; the pointer is read
UpdateEmbedBegin ==
    /\ pc = "update_embed"
    /\ held' = held \cup {MessagesLock}
    /\ pc' = IF used_messages[server_id] /= None
             THEN "get_message"
             ELSE "send_embed"
    /\ UNCHANGED <<app_vars, sample, old_status, server_id, timer_elapsed,
                   world_vars, cmd_vars, hist_vars>>
    /\ UNCHANGED rest_vars

\* faulty variant of AfterFetch: a failed fetch returns like a failed delete
AfterFetch_ReturnOnError(ok) == IF ok THEN "delete_message" ELSE "for_servers"

\* lines 169-171 and 205-214: a fetched message is deleted; after a fetch
\* error the new message is sent at once
AfterFetch(ok) == IF ok THEN "delete_message" ELSE "send_embed"

\* lines 168-170 and 205-210: any error of the fetch counts as "gone"; the
\* fetch can only succeed for a message that exists
GetMessageDone(ok) ==
    /\ pc = "get_message"
    /\ ok => PointedMessage /= {}
    /\ calls' = Append(calls, Call(server_id, "get_message", ok))
    /\ pc' = AfterFetch(ok)
    /\ UNCHANGED <<app_vars, sample, old_status, server_id, held,
                   timer_elapsed, world_vars, cmd_vars, probes_in_flight,
                   samples_fed, streak, last_result,
                   previous_attempts, snapshot_flip, flips,
                   notify_log, passes_done, save_calls,
                   deleted_by_reconciler>>
    /\ UNCHANGED rest_vars

\* faulty variant of AfterDelete: the new message is sent although the old
\* one could not be deleted
AfterDelete_SendAnyway(ok) == "send_embed"

\* lines 172-182: `return` on a failed deletion, the send after a
\* successful one
AfterDelete(ok) == IF ok THEN "send_embed" ELSE ReturnFromUpdateEmbed

\* lines 171-181: on an error the function returns and the guard is dropped
DeleteMessageDone(ok) ==
    /\ pc = "delete_message"
    /\ ok => PointedMessage /= {}
    /\ calls' = Append(calls, Call(server_id, "delete_message", ok))
    /\ IF ok
       THEN /\ messages' = messages \ PointedMessage
            /\ deleted_by_reconciler' =
                   deleted_by_reconciler \cup {used_messages[server_id]}
       ELSE UNCHANGED <<messages, deleted_by_reconciler>>
    /\ pc' = AfterDelete(ok)
    /\ held' = IF AfterDelete(ok) = "send_embed"
               THEN held ELSE held \ {MessagesLock}
    /\ UNCHANGED <<app_vars, sample, old_status, server_id, timer_elapsed,
                   next_message_id, external_deletes, cmd_vars,
                   probes_in_flight, samples_fed, streak, last_result,
                   previous_attempts, snapshot_flip, flips, notify_log,
                   passes_done, save_calls>>
    /\ UNCHANGED rest_vars

\* faulty variant of PointerAfterSend: the id of the new message is not kept
PointerAfterSend_Dropped(pointers, s, id) == pointers

\* lines 188-189, 217-218, 244: the pointer after a successful send
PointerAfterSend(pointers, s, id) == [pointers EXCEPT ![s] = id]

\* faulty variant of PointerAfterFailure: the pointer is cleared
PointerAfterFailure_Cleared(pointers, s) == [pointers EXCEPT ![s] = None]

\* lines 196-202, 225-231, 251-257: a failed send is logged only
PointerAfterFailure(pointers, s) == pointers

\* lines 182-203, 211-232, 238-258: the three sends of the new embed
SendEmbedDone(ok) ==
    /\ pc = "send_embed"
    /\ calls' = Append(calls, Call(server_id, "send_embed", ok))
    /\ embeds_sent' = embeds_sent \cup {<<server_id, embed>>}
    /\ IF ok
       THEN /\ messages' = messages \cup
                   {[id |-> next_message_id, server |-> server_id]}
            /\ next_message_id' = next_message_id + 1
            /\ used_messages' =
                   PointerAfterSend(used_messages, server_id, next_message_id)
       ELSE /\ used_messages' = PointerAfterFailure(used_messages, server_id)
            /\ UNCHANGED <<messages, next_message_id>>
    /\ held' = held \ {MessagesLock}
    /\ pc' = ReturnFromUpdateEmbed
    /\ UNCHANGED <<status, attempts_before_notification, last_status_change,
                   required_attempts_before_notification, server_configs,
                   sample, old_status, server_id, timer_elapsed,
                   external_deletes, cmd_vars,
                   probes_in_flight, samples_fed, streak, last_result,
                   previous_attempts,
                   snapshot_flip, flips, notify_log, passes_done, save_calls,
                   deleted_by_reconciler>>
    /\ UNCHANGED <<config_vars, timer_vars, admin_vars, template_vars,
                   peer_vars, loop_vars, lock_vars, probe_outcome, embed,
                   pass_config, pass_pointers>>

\* a Discord user deletes a status message of the bot
ExternalDelete(m) ==
    /\ m \in messages
    /\ external_deletes < MaxExternalDeletes
    /\ external_deletes' = external_deletes + 1
    /\ messages' = messages \ {m}
    /\ UNCHANGED <<app_vars, task_vars, next_message_id, cmd_vars, hist_vars>>
    /\ UNCHANGED rest_vars

(***************************************************************************)
(* Persistence: save_data (lib.rs 237-248) as called by update_status      *)
(* (status.rs 42).  Nothing else writes the status fields or the pointers, *)
(* so the task's own load_from reads them as they are.                     *)
(***************************************************************************)
SaveData ==
    /\ pc = "save_data"
    /\ task_saved_data' = CurrentData
    /\ pc' = "save_to_file"
    /\ UNCHANGED <<app_vars, sample, old_status, server_id, held,
                   timer_elapsed, world_vars, saved_data, cmd_pc,
                   new_saved_data, commands_issued, hist_vars>>
    /\ UNCHANGED rest_vars

\* faulty variant of AfterSave: the error of the write is propagated and ends
\* the task
AfterSave_Propagate(ok) == IF ok THEN "idle" ELSE "stopped"

\* lib.rs 239-247 and status.rs 42-43: save_data returns nothing, its error
\* is logged; update_status returns to the loop of ping_task
AfterSave(ok) == "idle"

\* lines 239-247: a failing write is logged only
SaveToFile(ok) ==
    /\ pc = "save_to_file"
    /\ saved_data' = IF ok THEN task_saved_data ELSE saved_data
    /\ save_calls' = save_calls + 1
    /\ calls' = <<>>
    /\ pc' = AfterSave(ok)
    /\ UNCHANGED <<app_vars, sample, old_status, server_id, held,
                   timer_elapsed, world_vars, cmd_pc, new_saved_data,
                   commands_issued, task_saved_data, probes_in_flight,
                   samples_fed, streak, last_result,
                   previous_attempts, snapshot_flip, flips,
                   notify_log, passes_done, deleted_by_reconciler>>
    /\ UNCHANGED rest_vars

(***************************************************************************)
(* An administration command that only saves: /server show in the master   *)
(* server (commands/server.rs 141).  SavedData::load_from (lib.rs 127-135) *)
(* takes each lock in turn, one await per field.                           *)
(***************************************************************************)
ShowCommand ==
    /\ cmd_pc = "none"
    /\ commands_issued < MaxCommands
    /\ commands_issued' = commands_issued + 1
    /\ cmd_pc' = "load_status"
    /\ UNCHANGED <<app_vars, task_vars, world_vars, saved_data,
                   new_saved_data, task_saved_data, hist_vars>>
    /\ UNCHANGED rest_vars

\* lib.rs 129
LoadStatus ==
    /\ cmd_pc = "load_status"
    /\ new_saved_data' = [new_saved_data EXCEPT !.status = status]
    /\ snapshot_flip' = flips
    /\ cmd_pc' = "load_used_messages"
    /\ UNCHANGED <<app_vars, task_vars, world_vars, saved_data,
                   commands_issued, task_saved_data, probes_in_flight,
                   samples_fed, streak, last_result,
                   previous_attempts, flips, notify_log,
                   passes_done, save_calls, calls, deleted_by_reconciler>>
    /\ UNCHANGED rest_vars

\* lib.rs 130: read() waits while update_embed holds the write guard
LoadUsedMessages ==
    /\ cmd_pc = "load_used_messages"
    /\ MessagesLock \notin held
    /\ new_saved_data' = [new_saved_data EXCEPT !.used_messages = used_messages]
    /\ cmd_pc' = "load_attempts"
    /\ UNCHANGED <<app_vars, task_vars, world_vars, saved_data,
                   commands_issued, task_saved_data, hist_vars>>
    /\ UNCHANGED rest_vars

\* lib.rs 131
LoadAttempts ==
    /\ cmd_pc = "load_attempts"
    /\ new_saved_data' = [new_saved_data EXCEPT
           !.attempts_before_notification = attempts_before_notification]
    /\ cmd_pc' = "load_last_status_change"
    /\ UNCHANGED <<app_vars, task_vars, world_vars, saved_data,
                   commands_issued, task_saved_data, hist_vars>>
    /\ UNCHANGED rest_vars

\* lib.rs 132
LoadLastStatusChange ==
    /\ cmd_pc = "load_last_status_change"
    /\ new_saved_data' = [new_saved_data EXCEPT
           !.last_status_change = last_status_change]
    /\ cmd_pc' = "load_config"
    /\ UNCHANGED <<app_vars, task_vars, world_vars, saved_data,
                   commands_issued, task_saved_data, hist_vars>>
    /\ UNCHANGED rest_vars

\* lib.rs 133: a second reader of the configuration is admitted
LoadConfig ==
    /\ cmd_pc = "load_config"
    /\ new_saved_data' = [new_saved_data EXCEPT !.config = CurrentConfig]
    /\ cmd_pc' = "save_to_file"
    /\ UNCHANGED <<app_vars, task_vars, world_vars, saved_data,
                   commands_issued, task_saved_data, hist_vars>>
    /\ UNCHANGED rest_vars

\* lib.rs 239-247; the handler replies and returns
CommandSaveToFile(ok) ==
    /\ cmd_pc = "save_to_file"
    /\ saved_data' = IF ok THEN new_saved_data ELSE saved_data
    /\ cmd_pc' = "none"
    /\ cmd_name' = "none"
    /\ cmd_guild' = None
    /\ master_backup' = <<>>
    /\ UNCHANGED <<app_vars, task_vars, world_vars, new_saved_data,
                   commands_issued, task_saved_data, hist_vars>>
    /\ UNCHANGED <<config_vars, timer_vars, aside_vars, probe_outcome>>

(***************************************************************************)
(* Templates: replace_templates (status.rs 299-309).  A String is a        *)
(* sequence of characters.  The words of the placeholders are written as   *)
(* one character each: "%" is the delimiter "%%", "R" the word RESOURCE,   *)
(* "L" the word ROLE; "a" is any other text.                               *)
(***************************************************************************)
\* status.rs 14-15 and 12
TEMPLATE_RESOURCE_NAME == <<"%", "R", "%">>
TEMPLATE_ROLE_PING == <<"%", "L", "%">>
ROLE_FALLBACK_STRING == <<"people">>

\* the characters of the templates and of the resource names under study
TemplateChars == {"%", "R", "L"}
NameChars == {"%", "R", "a"}
RoleIds == {None, 42}

\* the strings over `chars` of up to n characters
Strings(chars, n) == UNION {[1..k -> chars] : k \in 0..n}

\* `token` occurs in s
Contains(s, token) ==
    \E i \in 1..(Len(s) - Len(token) + 1) :
        SubSeq(s, i, i + Len(token) - 1) = token

\* faulty variant of Replace: only the first occurrence is replaced
Replace_FirstOnly(s, from, to) ==
    IF Contains(s, from)
    THEN LET i == CHOOSE j \in 1..(Len(s) - Len(from) + 1) :
                      /\ SubSeq(s, j, j + Len(from) - 1) = from
                      /\ \A k \in 1..(j - 1) :
                             SubSeq(s, k, k + Len(from) - 1) /= from
         IN  SubSeq(s, 1, i - 1) \o to \o SubSeq(s, i + Len(from), Len(s))
    ELSE s

\* str::replace (lines 306-308): every non-overlapping occurrence of `from`,
\* found from left to right, is replaced by `to`
RECURSIVE Replace(_, _, _)
Replace(s, from, to) ==
    IF Len(s) < Len(from)
    THEN s
    ELSE IF SubSeq(s, 1, Len(from)) = from
         THEN to \o Replace(SubSeq(s, Len(from) + 1, Len(s)), from, to)
         ELSE <<s[1]>> \o Replace(Tail(s), from, to)

\* lines 300-305: the mention of the role, or the fallback word
RolePing(id) ==
    IF id /= None THEN <<"<@&", ToString(id), ">">> ELSE ROLE_FALLBACK_STRING

\* lines 306-308
replace_templates(msg, name, id) ==
    Replace(Replace(msg, TEMPLATE_RESOURCE_NAME, name),
            TEMPLATE_ROLE_PING, RolePing(id))

\* one call of replace_templates returns
ReplaceTemplatesCall ==
    /\ tpl_pc = "input"
    /\ output' = replace_templates(message, resource_name, role_id)
    /\ tpl_pc' = "done"
    /\ UNCHANGED <<app_vars, task_vars, world_vars, cmd_vars, hist_vars,
                   config_vars, timer_vars, admin_vars, message, role_id,
                   probe_outcome, peer_vars, pass_vars, loop_vars,
                   lock_vars>>

(***************************************************************************)
(* The [M ONLY] commands (commands/config.rs, commands/server.rs,          *)
(* commands/debug.rs).  Every handler defers its reply, runs master_check  *)
(* and returns at once when the check fails.                               *)
(***************************************************************************)
\* where a command can be invoked: in a guild, or outside any (None)
Guilds == {None} \cup Servers

\* the values of the `interval` and `timeout` parameters (seconds)
Seconds == 1..MaxSeconds

\* faulty variant of MasterCheck: any guild passes
MasterCheck_AnyGuild(guild) == guild /= None

\* commands.rs 24-32
MasterCheck(guild) ==
    IF guild /= None THEN guild = master_server ELSE FALSE

\* a slash command arrives; ctx.defer_ephemeral() (e.g. config.rs 196)
Invoke(names) ==
    /\ cmd_pc = "none"
    /\ commands_issued < MaxCommands
    /\ commands_issued' = commands_issued + 1
    /\ \E name \in names, guild \in Guilds :
           /\ cmd_name' = name
           /\ cmd_guild' = guild
    /\ cmd_pc' = "master_check"
    /\ UNCHANGED <<app_vars, task_vars, world_vars, saved_data,
                   new_saved_data, task_saved_data, hist_vars>>
    /\ UNCHANGED <<config_vars, timer_vars, master_backup, aside_vars,
                   probe_outcome>>

\* `if !master_check(ctx).await { reply; return Ok(()) }` (e.g. config.rs
\* 199-207); the check reads the configuration under its read lock.  A
\* rejected invocation stays on record in cmd_name and cmd_guild.
MasterCheckDone ==
    /\ cmd_pc = "master_check"
    /\ IF MasterCheck(cmd_guild)
       THEN /\ cmd_pc' = cmd_name
            /\ UNCHANGED <<cmd_name, cmd_guild>>
       ELSE /\ cmd_pc' = "none"
            /\ UNCHANGED <<cmd_name, cmd_guild>>
    /\ UNCHANGED <<app_vars, task_vars, world_vars, saved_data,
                   new_saved_data, commands_issued, task_saved_data,
                   hist_vars>>
    /\ UNCHANGED <<config_vars, timer_vars, master_backup, aside_vars,
                   probe_outcome>>

\* faulty variant of ConfigWritable: a writer does not wait for the readers
ConfigWritable_Unguarded == TRUE

\* config.write().await is granted when the probe task holds no read guard
ConfigWritable == ConfigLock \notin held

\* config.write().await of the handler finds the lock read-held and joins
\* the wait queue
RequestWrite ==
    /\ cmd_pc \in WritePositions
    /\ ~ConfigWritable
    /\ write_queued /= commands_issued
    /\ write_queued' = commands_issued
    /\ UNCHANGED <<app_vars, task_vars, world_vars, cmd_vars, hist_vars,
                   config_vars, timer_vars, admin_vars, template_vars,
                   peer_vars, pass_vars, loop_vars, probe_outcome>>

\* config.rs 209-222: /config interval writes the field, then save_data
IntervalCommand(value) ==
    /\ cmd_pc = "interval"
    /\ ConfigWritable
    /\ interval_between_attempts' = value
    /\ cmd_pc' = "load_status"
    /\ UNCHANGED <<app_vars, task_vars, world_vars, saved_data,
                   new_saved_data, commands_issued, task_saved_data,
                   hist_vars>>
    /\ UNCHANGED <<master_server, max_servers, resource_name, resource_addr,
                   timeout, timer_vars, admin_vars, aside_vars,
                   probe_outcome>>

\* config.rs 257-265: /config timeout
TimeoutCommand(value) ==
    /\ cmd_pc = "timeout"
    /\ ConfigWritable
    /\ timeout' = value
    /\ cmd_pc' = "load_status"
    /\ UNCHANGED <<app_vars, task_vars, world_vars, saved_data,
                   new_saved_data, commands_issued, task_saved_data,
                   hist_vars>>
    /\ UNCHANGED <<master_server, max_servers, resource_name, resource_addr,
                   interval_between_attempts, timer_vars, admin_vars,
                   aside_vars, probe_outcome>>

\* faulty variant of AdminFrame: a command also forgets the status messages
AdminFrame_ClearsPointers ==
    /\ used_messages' = [s \in Servers |-> None]
    /\ UNCHANGED <<status, attempts_before_notification,
                   last_status_change, task_vars, world_vars, saved_data,
                   new_saved_data, commands_issued, task_saved_data,
                   hist_vars, timer_vars, aside_vars, probe_outcome>>

\* what the handler leaves alone besides the configuration
AdminFrame ==
    UNCHANGED <<status, used_messages, attempts_before_notification,
                last_status_change, task_vars, world_vars, saved_data,
                new_saved_data, commands_issued, task_saved_data, hist_vars,
                timer_vars, aside_vars, probe_outcome>>

\* the handler replies and returns
Return ==
    /\ cmd_pc' = "none"
    /\ cmd_name' = "none"
    /\ cmd_guild' = None
    /\ master_backup' = <<>>

\* the handler goes on to save_data
ThenSaveData ==
    /\ cmd_pc' = "load_status"
    /\ UNCHANGED admin_vars

\* `*ctx.data().config.write().await = config` (config.rs 57, 89)
SetConfig(cfg) ==
    /\ master_server' = cfg.master_server
    /\ max_servers' = cfg.max_servers
    /\ resource_name' = cfg.ping_config.resource_name
    /\ resource_addr' = cfg.ping_config.resource_addr
    /\ required_attempts_before_notification' =
           cfg.ping_config.required_attempts_before_notification
    /\ timeout' = cfg.ping_config.timeout
    /\ interval_between_attempts' = cfg.ping_config.interval_between_attempts
    /\ server_configs' = cfg.server_configs

\* Config.toml of the host: the first server is the master, nothing is
\* registered
ConfigToml ==
    ConfigOf(1, Cardinality(Servers), DEFAULT_RESOURCE_NAME,
             DEFAULT_RESOURCE_ADDR, 1, DEFAULT_TIMEOUT_SECS,
             DEFAULT_INTERVAL_BETWEEN_ATTEMPTS_SECS, <<>>)

\* Config::default() (lib.rs 150, 195-204): derived defaults for the master
\* server, the limit and the map
DefaultConfig ==
    ConfigOf(None, 0, DEFAULT_RESOURCE_NAME, DEFAULT_RESOURCE_ADDR,
             DEFAULT_ATTEMPTS_BEFORE_NOTIFICATION, DEFAULT_TIMEOUT_SECS,
             DEFAULT_INTERVAL_BETWEEN_ATTEMPTS_SECS, <<>>)

\* config.rs 52-97: /config reset; `loaded` is what Config::load_from_file
\* returned.  The hardcoded defaults are not saved.
ResetCommand(loaded) ==
    /\ cmd_pc = "reset"
    /\ CASE loaded = "Ok(Some)" ->
               /\ ConfigWritable
               /\ SetConfig(ConfigToml)
               /\ ThenSaveData
           [] loaded = "Err" ->
               /\ UNCHANGED <<config_vars,
                              required_attempts_before_notification,
                              server_configs>>
               /\ Return
           [] OTHER ->
               /\ ConfigWritable
               /\ SetConfig(DefaultConfig)
               /\ Return
    /\ AdminFrame

\* the values of the `name` and `addr` parameters
ResourceNames == {DEFAULT_RESOURCE_NAME, <<"a", "a">>}
ResourceAddrs == {DEFAULT_RESOURCE_ADDR, "example.org"}

\* config.rs 129-137: /config name
NameCommand(value) ==
    /\ cmd_pc = "name"
    /\ ConfigWritable
    /\ resource_name' = value
    /\ ThenSaveData
    /\ UNCHANGED <<master_server, max_servers, resource_addr,
                   interval_between_attempts, timeout,
                   required_attempts_before_notification, server_configs>>
    /\ AdminFrame

\* config.rs 166-179: /config address; the address must resolve
AddressCommand(value, resolved) ==
    /\ cmd_pc = "address"
    /\ IF resolved
       THEN /\ ConfigWritable
            /\ resource_addr' = value
            /\ ThenSaveData
       ELSE /\ UNCHANGED resource_addr
            /\ Return
    /\ UNCHANGED <<master_server, max_servers, resource_name,
                   interval_between_attempts, timeout,
                   required_attempts_before_notification, server_configs>>
    /\ AdminFrame

\* config.rs 295-308: /config attempts
AttemptsCommand(value) ==
    /\ cmd_pc = "attempts"
    /\ ConfigWritable
    /\ required_attempts_before_notification' = value
    /\ ThenSaveData
    /\ UNCHANGED <<config_vars, server_configs>>
    /\ AdminFrame

\* server.rs 105-113: /server limit
LimitCommand(value) ==
    /\ cmd_pc = "limit"
    /\ ConfigWritable
    /\ max_servers' = value
    /\ ThenSaveData
    /\ UNCHANGED <<master_server, resource_name, resource_addr,
                   interval_between_attempts, timeout,
                   required_attempts_before_notification, server_configs>>
    /\ AdminFrame

\* server.rs 136-150: /server show lists the servers, replies and saves
ShowServers ==
    /\ cmd_pc = "show"
    /\ ThenSaveData
    /\ UNCHANGED <<config_vars, required_attempts_before_notification,
                   server_configs>>
    /\ AdminFrame

\* the map without the entry of server s
WithoutServer(configs, s) == [r \in DOMAIN configs \ {s} |-> configs[r]]

\* server.rs 185-190, 203: /server remove All reads the entry of the master
\* server under the read lock and releases it
RemoveAllRead ==
    /\ cmd_pc = "remove_all"
    /\ master_backup' =
           [s \in {cmd_guild} \cap DOMAIN server_configs |-> server_configs[s]]
    /\ cmd_pc' = "remove_all_write"
    /\ UNCHANGED <<cmd_name, cmd_guild>>
    /\ UNCHANGED <<config_vars, required_attempts_before_notification,
                   server_configs>>
    /\ AdminFrame

\* server.rs 192-197, 205: clear(), then the backup is inserted again
RemoveAllWrite ==
    /\ cmd_pc = "remove_all_write"
    /\ ConfigWritable
    /\ server_configs' = master_backup
    /\ ThenSaveData
    /\ UNCHANGED <<config_vars, required_attempts_before_notification>>
    /\ AdminFrame

\* server.rs 178 and 211-252: /server remove with its options; One needs an
\* id other than the master server
RemoveCommand(options, id) ==
    /\ cmd_pc = "remove"
    /\ CASE options = "All" ->
               /\ cmd_pc' = "remove_all"
               /\ UNCHANGED <<admin_vars, server_configs>>
           [] options = "One" /\ id /= None /\ id /= cmd_guild ->
               /\ ConfigWritable
               /\ server_configs' = WithoutServer(server_configs, id)
               /\ ThenSaveData
           [] OTHER ->
               /\ UNCHANGED server_configs
               /\ Return
    /\ UNCHANGED <<config_vars, required_attempts_before_notification>>
    /\ AdminFrame

\* debug.rs 58-99 and 103-144: /debug logs and /debug data attach a file to
\* the reply
DebugCommand ==
    /\ cmd_pc \in {"logs", "data"}
    /\ Return
    /\ UNCHANGED <<config_vars, required_attempts_before_notification,
                   server_configs>>
    /\ AdminFrame

\* the commands marked [M ONLY]
MasterOnlyCommands ==
    {"reset", "name", "address", "interval", "timeout", "attempts",
     "limit", "show", "remove", "logs", "data"}

(***************************************************************************)
(* The commands open to every server: /server register (server.rs 27-81)   *)
(* and /config channel (config.rs 327-391).  Both take the write guard of  *)
(* the configuration first and keep it until the entry is written and the  *)
(* reply is sent, so the check and the write are one step for every other  *)
(* task.  serenity dispatches every interaction in a task of its own: a    *)
(* second handler runs concurrently with the first.                        *)
(***************************************************************************)
\* faulty variant of RegistryFull: the limit itself is still accepted
RegistryFull_OffByOne(configs, max) == Cardinality(DOMAIN configs) > max

\* server.rs 46
RegistryFull(configs, max) == Cardinality(DOMAIN configs) >= max

\* ServerConfig::with_name (lib.rs 229-236): no channel yet
NewServerConfig == None

\* server.rs 46-61 with get_server_config_vacant_entry (commands.rs
\* 119-135): the registry after register was called from `guild`
Registered(configs, max, guild) ==
    IF RegistryFull(configs, max)
    THEN configs
    ELSE IF guild = None \/ guild \in DOMAIN configs
         THEN configs
         ELSE [s \in DOMAIN configs \cup {guild} |->
                  IF s = guild THEN NewServerConfig ELSE configs[s]]

\* config.rs 346-369 with get_server_config_entry (commands.rs 99-117): the
\* registry after channel was called from `guild` with a channel of that
\* guild; a category is refused
WithChannel(configs, guild, valid) ==
    IF guild = None \/ guild \notin DOMAIN configs \/ ~valid
    THEN configs
    ELSE [configs EXCEPT ![guild] = guild]

\* a command that needs no master check arrives at the first handler
InvokeOpen(names) ==
    /\ cmd_pc = "none"
    /\ commands_issued < MaxCommands
    /\ commands_issued' = commands_issued + 1
    /\ \E name \in names, guild \in Guilds :
           /\ cmd_name' = name
           /\ cmd_guild' = guild
           /\ cmd_pc' = name
    /\ UNCHANGED <<app_vars, task_vars, world_vars, saved_data,
                   new_saved_data, task_saved_data, hist_vars>>
    /\ UNCHANGED <<config_vars, timer_vars, master_backup, aside_vars,
                   probe_outcome>>

\* server.rs 45-80 in the first handler: save_data follows only when the
\* server was added
RegisterCommand ==
    /\ cmd_pc = "register"
    /\ ConfigWritable
    /\ server_configs' = Registered(server_configs, max_servers, cmd_guild)
    /\ IF server_configs' /= server_configs THEN ThenSaveData ELSE Return
    /\ UNCHANGED <<config_vars, required_attempts_before_notification>>
    /\ AdminFrame

\* what a step of the second handler leaves alone besides the configuration
\* and its own variables
PeerFrame ==
    UNCHANGED <<status, used_messages, attempts_before_notification,
                last_status_change, required_attempts_before_notification,
                task_vars, world_vars, new_saved_data, cmd_pc,
                commands_issued, task_saved_data, hist_vars, config_vars,
                timer_vars, admin_vars, template_vars, pass_vars,
                loop_vars, lock_vars, probe_outcome>>

\* a command arrives at the second handler
PeerInvoke(names) ==
    /\ peer_pc = "none"
    /\ peers_issued < MaxPeerCommands
    /\ peers_issued' = peers_issued + 1
    /\ \E name \in names, guild \in Guilds :
           /\ peer_pc' = name
           /\ peer_name' = name
           /\ peer_guild' = guild
    /\ UNCHANGED <<server_configs, saved_data, peer_saved_data>>
    /\ PeerFrame

\* server.rs 45-80 in the second handler
PeerRegister ==
    /\ peer_pc = "register"
    /\ ConfigWritable
    /\ server_configs' = Registered(server_configs, max_servers, peer_guild)
    /\ peer_pc' = IF server_configs' /= server_configs
                  THEN "load_from" ELSE "none"
    /\ UNCHANGED <<saved_data, peer_name, peer_guild, peer_saved_data,
                   peers_issued>>
    /\ PeerFrame

\* config.rs 346-390 in the second handler
PeerChannel(valid) ==
    /\ peer_pc = "channel"
    /\ ConfigWritable
    /\ server_configs' = WithChannel(server_configs, peer_guild, valid)
    /\ peer_pc' = IF peer_guild /= None /\ peer_guild \in DOMAIN server_configs
                     /\ valid
                  THEN "load_from" ELSE "none"
    /\ UNCHANGED <<saved_data, peer_name, peer_guild, peer_saved_data,
                   peers_issued>>
    /\ PeerFrame

\* lib.rs 127-135: SavedData::load_from of the second handler, up to the
\* configuration: four locks taken in turn
PeerLoadFrom ==
    /\ peer_pc \in {"load_from", "load_used_messages", "load_attempts",
                    "load_last_status_change"}
    /\ CASE peer_pc = "load_from" ->
               /\ peer_saved_data' =
                      [peer_saved_data EXCEPT !.status = status]
               /\ peer_pc' = "load_used_messages"
           [] peer_pc = "load_used_messages" ->
               /\ MessagesLock \notin held
               /\ peer_saved_data' =
                      [peer_saved_data EXCEPT !.used_messages = used_messages]
               /\ peer_pc' = "load_attempts"
           [] peer_pc = "load_attempts" ->
               /\ peer_saved_data' =
                      [peer_saved_data EXCEPT !.attempts_before_notification =
                                                  attempts_before_notification]
               /\ peer_pc' = "load_last_status_change"
           [] OTHER ->
               /\ peer_saved_data' =
                      [peer_saved_data EXCEPT !.last_status_change =
                                                  last_status_change]
               /\ peer_pc' = "load_config"
    /\ UNCHANGED <<server_configs, saved_data, peer_name, peer_guild,
                   peers_issued>>
    /\ PeerFrame

\* lib.rs 133: the configuration is read last
PeerLoadConfig ==
    /\ peer_pc = "load_config"
    /\ peer_saved_data' = [peer_saved_data EXCEPT !.config = CurrentConfig]
    /\ peer_pc' = "save_to_file"
    /\ UNCHANGED <<server_configs, saved_data, peer_name, peer_guild,
                   peers_issued>>
    /\ PeerFrame

\* lib.rs 239-247; the second handler returns
PeerSaveToFile(ok) ==
    /\ peer_pc = "save_to_file"
    /\ saved_data' = IF ok THEN peer_saved_data ELSE saved_data
    /\ peer_pc' = "none"
    /\ UNCHANGED <<server_configs, peer_name, peer_guild, peer_saved_data,
                   peers_issued>>
    /\ PeerFrame

(***************************************************************************)
(* The system.                                                             *)
(***************************************************************************)
\* the probe task without its timer, probing a resource whose probes end in
\* one of `outcomes`
ProbeLoopStep(outcomes) ==
    \/ Tick
    \/ \E outcome \in outcomes : ProbeDone(outcome)
    \/ UpdateStatus
    \/ FlipCounter
    \/ FlipStatus
    \/ FlipTimestamp
    \/ NotifyBegin
    \/ NotifyReadAddr
    \/ ForServers
    \/ NotifyEnd
    \/ SaveData
    \/ \E ok \in BOOLEAN : SaveToFile(ok)

\* the probe task
TaskStep ==
    \/ TimerFire
    \/ ProbeLoopStep(ProbeOutcomes)

\* the calls of the pass to Discord, each ending in one of `results`
DiscordCalls(results) ==
    \/ \E ok \in results : GetChannelDone(ok)
    \/ \E ok \in results : SendAnnouncementDone(ok)
    \/ UpdateEmbedBegin
    \/ \E ok \in results : GetMessageDone(ok)
    \/ \E ok \in results : DeleteMessageDone(ok)
    \/ \E ok \in results : SendEmbedDone(ok)

\* the calls to Discord and what its users do
DiscordStep ==
    \/ DiscordCalls(BOOLEAN)
    \/ \E m \in messages : ExternalDelete(m)

\* the command handler
CommandStep ==
    \/ ShowCommand
    \/ LoadStatus
    \/ LoadUsedMessages
    \/ LoadAttempts
    \/ LoadLastStatusChange
    \/ LoadConfig
    \/ \E ok \in BOOLEAN : CommandSaveToFile(ok)

\* the probe task notifying the registered servers
Next == TaskStep \/ DiscordStep

Spec == Init /\ [][Next]_vars

\* the probe task and a concurrent command, before any channel is configured
NextSnapshot == TaskStep \/ CommandStep

SpecSnapshot == InitNoChannel /\ [][NextSnapshot]_vars

\* save_data as the commands call it (lib.rs 237-248)
CommandSaveStep ==
    \/ LoadStatus
    \/ LoadUsedMessages
    \/ LoadAttempts
    \/ LoadLastStatusChange
    \/ LoadConfig
    \/ \E ok \in BOOLEAN : CommandSaveToFile(ok)

\* the commands that change the timing of the probes
TimingCommandStep ==
    \/ Invoke({"interval", "timeout"})
    \/ MasterCheckDone
    \/ \E value \in Seconds : IntervalCommand(value)
    \/ \E value \in Seconds : TimeoutCommand(value)
    \/ CommandSaveStep

\* a start with any timing in Config.toml, no channel configured, and the
\* threshold, on which the timing does not depend, at 1
InitInterval ==
    /\ InitConfig
    /\ interval_between_attempts \in Seconds
    /\ timeout \in Seconds
    /\ InitTimer
    /\ InitAdmin
    /\ InitTemplate
    /\ InitData({f \in ServerConfigs : \A s \in Servers : f[s] = None})
    /\ required_attempts_before_notification = 1
    /\ InitPeer
    /\ InitPass
    /\ InitLoop
    /\ preceding_sample = NoSample
    /\ InitQueue

\* the probe task with its timer counted in seconds, probing a resource
\* that answers (what the loop does between two ticks does not depend on
\* the outcome), and the timing commands
NextInterval ==
    TimePasses \/ ProbeLoopStep({"reply"}) \/ TimingCommandStep

SpecInterval == InitInterval /\ [][NextInterval]_vars

\* the handlers of the [M ONLY] commands
AdminStep ==
    \/ Invoke(MasterOnlyCommands)
    \/ MasterCheckDone
    \/ \E loaded \in {"Ok(Some)", "Err", "Ok(None)"} : ResetCommand(loaded)
    \/ \E value \in ResourceNames : NameCommand(value)
    \/ \E value \in ResourceAddrs, resolved \in BOOLEAN :
           AddressCommand(value, resolved)
    \/ \E value \in Seconds : IntervalCommand(value)
    \/ \E value \in Seconds : TimeoutCommand(value)
    \/ \E value \in 1..MaxThreshold : AttemptsCommand(value)
    \/ \E value \in 1..Cardinality(Servers) : LimitCommand(value)
    \/ ShowServers
    \/ \E options \in {"All", "One"}, id \in Guilds : RemoveCommand(options, id)
    \/ RemoveAllRead
    \/ RemoveAllWrite
    \/ DebugCommand
    \/ CommandSaveStep

\* a host with or without a master server in its configuration
InitMaster ==
    /\ master_server \in {None, 1}
    /\ max_servers = Cardinality(Servers)
    /\ resource_name = DEFAULT_RESOURCE_NAME
    /\ resource_addr = DEFAULT_RESOURCE_ADDR
    /\ InitTiming
    /\ InitTimer
    /\ InitAdmin
    /\ InitTemplate
    /\ InitData(ServerConfigs)
    /\ InitPeer
    /\ InitPass
    /\ InitLoop
    /\ preceding_sample = NoSample
    /\ InitQueue

\* the commands alone, while the probe task waits for its tick
SpecAdmin == InitMaster /\ [][AdminStep]_vars

\* the resource names under study: the short ones, and the text of the role
\* placeholder (/config name takes any text of up to 25 characters)
TemplateNames == Strings(NameChars, MaxNameLen) \cup {TEMPLATE_ROLE_PING}

\* replace_templates about to be called with any template of a server, any
\* resource name of the configuration and any role
InitTemplates ==
    /\ master_server = 1
    /\ max_servers = Cardinality(Servers)
    /\ resource_name \in TemplateNames
    /\ resource_addr = DEFAULT_RESOURCE_ADDR
    /\ InitTiming
    /\ InitTimer
    /\ InitAdmin
    /\ tpl_pc = "input"
    /\ message \in Strings(TemplateChars, MaxTemplateLen)
    /\ role_id \in RoleIds
    /\ output = <<>>
    /\ InitData({[s \in Servers |-> s]})
    /\ required_attempts_before_notification = 1
    /\ InitPeer
    /\ InitPass
    /\ InitLoop
    /\ preceding_sample = NoSample
    /\ InitQueue

SpecTemplates == InitTemplates /\ [][ReplaceTemplatesCall]_vars

\* the second handler serving the commands open to every server
PeerStep ==
    \/ PeerInvoke({"register", "channel"})
    \/ PeerRegister
    \/ \E valid \in BOOLEAN : PeerChannel(valid)
    \/ PeerLoadFrom
    \/ PeerLoadConfig
    \/ \E ok \in BOOLEAN : PeerSaveToFile(ok)

\* the first handler serving the commands on the registry
RegistryStep ==
    \/ Invoke({"remove", "limit"})
    \/ MasterCheckDone
    \/ \E options \in {"All", "One"}, id \in Guilds : RemoveCommand(options, id)
    \/ RemoveAllRead
    \/ RemoveAllWrite
    \/ \E value \in 1..Cardinality(Servers) : LimitCommand(value)
    \/ InvokeOpen({"register"})
    \/ RegisterCommand
    \/ CommandSaveStep

\* the registries: any set of servers, each with or without its channel
Registries ==
    UNION {{f \in [D -> {None} \cup Servers] : \A s \in D : f[s] \in {None, s}} :
              D \in SUBSET Servers}

\* a host whose master is the first server, with any registry within any
\* limit
InitRegistry ==
    /\ master_server = 1
    /\ max_servers \in 0..Cardinality(Servers)
    /\ resource_name = DEFAULT_RESOURCE_NAME
    /\ resource_addr = DEFAULT_RESOURCE_ADDR
    /\ InitTiming
    /\ InitTimer
    /\ InitAdmin
    /\ InitTemplate
    /\ InitData({f \in Registries : Cardinality(DOMAIN f) <= max_servers})
    /\ required_attempts_before_notification = 1
    /\ InitPeer
    /\ InitPass
    /\ InitLoop
    /\ preceding_sample = NoSample
    /\ InitQueue

\* two command handlers at once, while the probe task waits for its tick
SpecRegistry == InitRegistry /\ [][RegistryStep \/ PeerStep]_vars

\* two command handlers at once whose writes of Data.toml succeed: the first
\* serves /config reset and /server limit, the second the commands open to
\* every server
NextPersist ==
    \/ Invoke({"reset", "limit"})
    \/ MasterCheckDone
    \/ \E loaded \in {"Ok(Some)", "Err", "Ok(None)"} : ResetCommand(loaded)
    \/ \E value \in 1..Cardinality(Servers) : LimitCommand(value)
    \/ LoadStatus
    \/ LoadUsedMessages
    \/ LoadAttempts
    \/ LoadLastStatusChange
    \/ LoadConfig
    \/ CommandSaveToFile(TRUE)
    \/ PeerInvoke({"register", "channel"})
    \/ PeerRegister
    \/ \E valid \in BOOLEAN : PeerChannel(valid)
    \/ PeerLoadFrom
    \/ PeerLoadConfig
    \/ PeerSaveToFile(TRUE)

SpecPersist == InitRegistry /\ [][NextPersist]_vars

\* a host whose servers are all registered with their channels, and whose
\* master is the first server
InitSystem ==
    /\ InitConfig
    /\ InitTiming
    /\ InitTimer
    /\ InitAdmin
    /\ InitTemplate
    /\ InitData({[s \in Servers |-> s]})
    /\ required_attempts_before_notification = 1
    /\ InitPeer
    /\ InitPass
    /\ InitLoop
    /\ preceding_sample = NoSample
    /\ InitQueue

\* the probe task of a resource that answers or times out, its calls to
\* Discord, and the handler of the administration commands; the calls
\* succeed (what a command may change, and when, does not depend on them)
NextSystem ==
    \/ TimerFire
    \/ ProbeLoopStep({"reply", "timeout"})
    \/ DiscordCalls({TRUE})
    \/ AdminStep
    \/ InvokeOpen({"register"})
    \/ RegisterCommand

SpecSystem == InitSystem /\ [][NextSystem]_vars

\* a host without notification channels, from the first probe on, with the
\* sequence number of the probes followed
InitCounted ==
    /\ InitConfig
    /\ InitTiming
    /\ InitTimer
    /\ InitAdmin
    /\ InitTemplate
    /\ InitData({f \in ServerConfigs : \A s \in Servers : f[s] = None})
    /\ required_attempts_before_notification = 1
    /\ InitPeer
    /\ InitPass
    /\ InitSequence
    /\ preceding_sample = NoSample
    /\ InitQueue

\* the probe task of a resource that answers every probe
SpecSequence == InitCounted /\ [][TimerFire \/ ProbeLoopStep({"reply"})]_vars

\* the probe task, its calls to Discord, and the handler of /config name,
\* whose write() joins the wait queue of the configuration lock when the
\* lock is read-held
NextQueue ==
    \/ TimerFire
    \/ ProbeLoopStep({"reply", "timeout"})
    \/ DiscordCalls({TRUE})
    \/ Invoke({"name"})
    \/ MasterCheckDone
    \/ \E value \in ResourceNames : NameCommand(value)
    \/ RequestWrite
    \/ CommandSaveStep

SpecQueue == InitSystem /\ [][NextQueue]_vars

\* the sequence number of the probes is not followed, or the program was
\* built with overflow checks and runs two probes before the last value of
\* the number (every probe so far failed with an error: status Unknown)
InitLive ==
    /\ InitConfig
    /\ InitTiming
    /\ InitTimer
    /\ InitAdmin
    /\ InitTemplate
    /\ InitData({[s \in Servers |-> s]})
    /\ InitPeer
    /\ InitPass
    /\ \/ InitLoop
       \/ /\ icmp_sequence = U16Modulus - 2
          /\ overflow_checks = TRUE
    /\ preceding_sample = NoSample
    /\ InitQueue

\* the timer fires, the probe task takes its next step whenever it can (the
\* runtime schedules it, healthcheck returns, its locks are granted), and
\* every call to Discord returns, with some result
Fairness ==
    /\ WF_vars(TimerFire)
    /\ WF_vars(ProbeLoopStep(ProbeOutcomes))
    /\ WF_vars(DiscordCalls(BOOLEAN))

\* the probe task notifying the registered servers, fairly scheduled
SpecLive == InitLive /\ [][Next]_vars /\ Fairness

(***************************************************************************)
(* Properties.                                                             *)
(***************************************************************************)
Required == required_attempts_before_notification

\* the positions at which an external network call is in flight
NetworkCalls ==
    {"get_channel", "send_announcement", "get_message", "delete_message",
     "send_embed"}

\* the entries of the pass's history for server s and operation op
CallsOf(s, op) == {i \in 1..Len(calls) : calls[i][1] = s /\ calls[i][2] = op}
FailedCalls(s) == {i \in 1..Len(calls) : calls[i][1] = s /\ ~calls[i][3]}

\* C1: starting from counter 0, the flip is confirmed exactly on the
\* Required-th consecutive mismatching sample: update_status never returns
\* without a flip once Required such samples were fed, and a flip is decided
\* with a streak of exactly Required.
C1_FlipOnThresholdSample ==
    /\ pc = "idle" => streak < Required
    /\ pc = "flip_counter" => streak = Required

\* C2: the confirmed status changes only when at least Required consecutive
\* mismatching samples (none of them before a matching sample or before the
\* previous flip) were fed.
C2_FlipNeedsStreak ==
    [][status' /= status => streak >= Required]_vars

\* a second change was just confirmed, after the counting restarted
C2_Witness ==
    /\ pc = "flip_timestamp"
    /\ flips = 2
    /\ status /= old_status

\* C3: an update_status call whose sample equals the confirmed status sets
\* the counter to 0, changes neither the status, the timestamp nor a message
\* pointer, and returns without notifying or saving.
C3_MatchingSampleOnlyResets ==
    [][(pc = "update_status" /\ sample = status /\ pc' /= pc) =>
          /\ attempts_before_notification' = 0
          /\ status' = status
          /\ last_status_change' = last_status_change
          /\ used_messages' = used_messages
          /\ pc' = "idle"
          /\ notify_log' = notify_log
          /\ passes_done' = passes_done
          /\ save_calls' = save_calls
          /\ saved_data' = saved_data]_vars

\* a matching sample has reset a counter that was not 0
C3_Witness ==
    /\ pc = "idle"
    /\ last_result = "match"
    /\ previous_attempts > 0
    /\ attempts_before_notification = 0

\* C4: when the loop of a notification pass ends, every server of the
\* configuration was visited exactly once and every server with a channel
\* had its channel fetched exactly once, whatever calls failed before.
C4_EveryServerOnce ==
    pc = "notify_end" =>
        \A s \in DOMAIN server_configs :
            /\ Cardinality(CallsOf(s, "visit")) = 1
            /\ server_configs[s] /= None =>
                   Cardinality(CallsOf(s, "get_channel")) = 1

\* a pass ended in which a call for the first server failed and the second
\* server got its status message
C4_Witness ==
    /\ pc = "notify_end"
    /\ FailedCalls(1) /= {}
    /\ \E i \in CallsOf(2, "send_embed") : calls[i][3]

\* C5: outside a reconciliation in progress, no pointer refers to a message
\* that update_embed deleted itself.
C5_NoPointerToOwnDeletion ==
    \A s \in Servers :
        ~(pc = "send_embed" /\ server_id = s) =>
            used_messages[s] \notin deleted_by_reconciler

\* C6: at most one status message of the bot is live per server.
C6_OneLiveStatusMessage ==
    \A s \in Servers : Cardinality({m \in messages : m.server = s}) <= 1

\* C7: notification passes and saves follow the confirmed changes one by
\* one, and whenever the task waits for a tick, probes or evaluates a sample,
\* every confirmed change has been notified and saved.
C7_ChangesSerialised ==
    /\ save_calls <= passes_done
    /\ passes_done <= Len(notify_log)
    /\ Len(notify_log) <= flips
    /\ flips <= save_calls + 1
    /\ pc \in {"save_data", "save_to_file"} => passes_done = flips
    /\ pc \in {"idle", "probing", "update_status"} =>
           /\ Len(notify_log) = flips
           /\ passes_done = flips
           /\ save_calls = flips

\* a probe is in flight after a confirmed change was notified and saved
C7_Witness ==
    /\ pc = "probing"
    /\ flips >= 1
    /\ save_calls = flips

\* C8: a probe is in flight exactly while the scheduler is Probing, never
\* two at once, and by the time the task is back at the tick the outcome of
\* the probe was handed to update_status exactly once.
C8_OneProbePerTick ==
    /\ probes_in_flight = (IF pc = "probing" THEN 1 ELSE 0)
    /\ pc = "probing" => samples_fed = 0
    /\ pc \notin {"probing", "idle"} => samples_fed = 1
    /\ (pc = "idle" /\ last_result /= "none") => samples_fed = 1

\* the interval has elapsed while the probe is still in flight
C8_Witness ==
    /\ pc = "probing"
    /\ timer_elapsed
    /\ probes_in_flight = 1
    /\ last_result /= "none"

\* C9: no snapshot taken by a command holds the status of a confirmed
\* change together with the timestamp of an earlier one.
C9_SnapshotAtomic ==
    cmd_pc = "save_to_file" =>
        new_saved_data.last_status_change >= snapshot_flip

\* C10: the probe task holds no lock while an external call is in flight.
C10_NoLockAcrossCall ==
    pc \in NetworkCalls => held = {}

\* C11: the sample handed to update_status is Up exactly for an answered
\* probe, Down exactly for a timed-out probe and Unknown exactly for every
\* other failure (resolution, client creation, any other ping error); a
\* timeout is never classified as an error.
C11_OutcomeClassified ==
    pc = "update_status" =>
        /\ probe_outcome \in ProbeOutcomes
        /\ probe_outcome = "reply" <=> sample = Up
        /\ probe_outcome = "timeout" <=> sample = Down
        /\ probe_outcome \in ProbeErrors <=> sample = Unknown

\* a probe of a resource confirmed Up timed out and is evaluated as Down
C11_Witness ==
    /\ pc = "update_status"
    /\ probe_outcome = "timeout"
    /\ sample = Down
    /\ status = Up

ReconcileCalls(s) ==
    CallsOf(s, "get_message") \cup CallsOf(s, "delete_message")
        \cup CallsOf(s, "send_embed")

\* s is a server whose channel was fetched successfully in this pass
ChannelResolved(s) == \E i \in CallsOf(s, "get_channel") : calls[i][3]

\* C13: in a pass for Up -> Down only down messages are sent, in a pass for
\* Down -> Up only up messages; no server gets two, every server whose
\* channel resolved has got exactly one by the end of the loop, and a status
\* message is fetched, deleted or sent for a server only after its
\* announcement was sent.
C13_OneAnnouncementPerServer ==
    ((old_status = Up /\ sample = Down) \/ (old_status = Down /\ sample = Up)) =>
        \A s \in Servers :
            LET down == CallsOf(s, "send_down_message")
                up == CallsOf(s, "send_up_message")
            IN  /\ old_status = Up => (up = {} /\ Cardinality(down) <= 1)
                /\ old_status = Down => (down = {} /\ Cardinality(up) <= 1)
                /\ (pc = "notify_end" /\ ChannelResolved(s)) =>
                       Cardinality(down \cup up) = 1
                /\ \A i \in ReconcileCalls(s) :
                       \E j \in down \cup up : j < i /\ calls[j][3]

\* the pass for Up -> Down ended: the first server got its down message and
\* then its status message, the announcement for the second server failed
C13_Witness ==
    /\ pc = "notify_end"
    /\ old_status = Up
    /\ sample = Down
    /\ \E i \in CallsOf(1, "send_down_message") : calls[i][3]
    /\ \E i \in CallsOf(1, "send_embed") : calls[i][3]
    /\ \E i \in CallsOf(2, "send_down_message") : ~calls[i][3]

\* C14: in a pass whose new or old status is Unknown no announcement is
\* sent or in flight for any server, and every server whose channel
\* resolved has had its status message reconciled by the end of the loop; in
\* particular the first confirmed change, which starts from the default
\* Unknown, announces nothing.
C14_NoAnnouncementForUnknown ==
    /\ (sample = Unknown \/ old_status = Unknown) =>
           /\ pc /= "send_announcement"
           /\ \A s \in Servers :
                  /\ CallsOf(s, "send_down_message") = {}
                  /\ CallsOf(s, "send_up_message") = {}
                  /\ (pc = "notify_end" /\ ChannelResolved(s)) =>
                         ReconcileCalls(s) /= {}
    /\ Len(notify_log) >= 1 => notify_log[1][1] = Unknown

\* the pass for Up -> Unknown ended with a new status message for the first
\* server
C14_Witness ==
    /\ pc = "notify_end"
    /\ old_status = Up
    /\ sample = Unknown
    /\ \E i \in CallsOf(1, "send_embed") : calls[i][3]

\* the status message a successful send_embed step creates
NewStatusMessage == [id |-> next_message_id, server |-> server_id]

\* the step is the return of the send of a new status message: either it
\* succeeded, the message exists and the pointer of the server is its id, or
\* it failed and neither the messages nor the pointers changed
SendReturned ==
    /\ pc' = "for_servers"
    /\ \/ /\ calls' = Append(calls, Call(server_id, "send_embed", TRUE))
          /\ NewStatusMessage \notin messages
          /\ messages' = messages \cup {NewStatusMessage}
          /\ used_messages' = [used_messages EXCEPT ![server_id] = next_message_id]
          /\ used_messages'[server_id] /= used_messages[server_id]
       \/ /\ calls' = Append(calls, Call(server_id, "send_embed", FALSE))
          /\ messages' = messages
          /\ used_messages' = used_messages

\* C16: update_embed for a server without a pointer goes straight to the
\* send (no fetch, no delete, nothing changed on the way), sends once, and a
\* successful send stores the id of the new message as the pointer.
C16_NoPointerSendsOnce ==
    [][/\ (pc = "update_embed" /\ used_messages[server_id] = None /\ pc' /= pc) =>
              /\ pc' = "send_embed"
              /\ calls' = calls
              /\ messages' = messages
              /\ used_messages' = used_messages
       /\ (pc = "send_embed" /\ used_messages[server_id] = None /\ pc' /= pc) =>
              /\ ReconcileCalls(server_id) = {}
              /\ SendReturned]_vars

\* the first pass gave the first server, which had no pointer, its status
\* message without a fetch or a delete
C16_Witness ==
    /\ pc = "for_servers"
    /\ server_id = 1
    /\ flips = 1
    /\ CallsOf(1, "get_message") \cup CallsOf(1, "delete_message") = {}
    /\ \E i \in CallsOf(1, "send_embed") : calls[i][3]
    /\ used_messages[1] = next_message_id - 1
    /\ [id |-> used_messages[1], server |-> 1] \in messages

\* the fetch of the stored status message of the current server failed
FetchFailed == \E i \in CallsOf(server_id, "get_message") : ~calls[i][3]

\* C17: a failed fetch of the stored message leads straight to the send,
\* without a delete and without touching messages or pointers; the send
\* happens once, and when it succeeds the pointer is overwritten with the id
\* of the new message.
C17_FetchFailureSendsOnce ==
    [][/\ (pc = "get_message" /\ pc' \notin {pc, "delete_message"}) =>
              /\ pc' = "send_embed"
              /\ calls' = Append(calls, Call(server_id, "get_message", FALSE))
              /\ messages' = messages
              /\ used_messages' = used_messages
              /\ deleted_by_reconciler' = deleted_by_reconciler
       /\ (pc = "send_embed" /\ FetchFailed /\ pc' /= pc) =>
              /\ CallsOf(server_id, "delete_message") = {}
              /\ CallsOf(server_id, "send_embed") = {}
              /\ deleted_by_reconciler' = deleted_by_reconciler
              /\ SendReturned]_vars

\* the fetch of the first server's message failed although the message is
\* still there; a new message was sent and the pointer now names it
C17_Witness ==
    /\ pc = "for_servers"
    /\ server_id = 1
    /\ \E i \in CallsOf(1, "get_message") : ~calls[i][3]
    /\ CallsOf(1, "delete_message") = {}
    /\ \E i \in CallsOf(1, "send_embed") : calls[i][3]
    /\ used_messages[1] = next_message_id - 1
    /\ Cardinality({m \in messages : m.server = 1}) = 2

\* C18: update_status has saved as many times as changes were confirmed
\* whenever the task is back in its loop, and at most one save is ever
\* outstanding; a save completes only after the notification pass of the
\* change it belongs to, it writes the runtime state as it is or, when the
\* write fails, leaves the file as it was; either way it changes nothing in
\* memory and the task returns to its loop.
C18_SaveOncePerChange ==
    /\ [](/\ save_calls <= flips
          /\ flips <= save_calls + 1
          /\ pc \in {"idle", "probing", "update_status"} => save_calls = flips)
    /\ [][(save_calls' /= save_calls \/ saved_data' /= saved_data
              \/ (pc = "save_to_file" /\ pc' /= pc)) =>
             /\ pc = "save_to_file"
             /\ pc' = "idle"
             /\ save_calls' = save_calls + 1
             /\ flips = save_calls + 1
             /\ passes_done = flips
             /\ app_vars' = app_vars
             /\ task_saved_data = CurrentData
             /\ saved_data' \in {task_saved_data, saved_data}]_vars

\* the write of the first confirmed change failed: the file still says
\* Unknown, and the next probe is in flight
C18_Witness ==
    /\ pc = "probing"
    /\ flips = 1
    /\ save_calls = 1
    /\ status /= Unknown
    /\ saved_data.status = Unknown

\* C19: a tick completes only when the wait is over; it reads the interval
\* and the timeout the configuration holds at that moment, and the wait it
\* starts lasts that interval.  A change of the configured interval or
\* timeout touches neither the wait in progress nor the timeout of the probe
\* in progress, and a wait only ever counts down second by second.
C19_TimingReadAtTick ==
    /\ [](/\ timer_elapsed <=> until_tick = 0
          /\ until_tick <= interval_period)
    /\ [][/\ (pc = "idle" /\ pc' = "probing") =>
                 /\ until_tick = 0
                 /\ interval_period' = interval_between_attempts
                 /\ until_tick' = interval_between_attempts
                 /\ probe_timeout' = timeout
          /\ (interval_between_attempts' /= interval_between_attempts
                  \/ timeout' /= timeout) =>
                 /\ until_tick' = until_tick
                 /\ interval_period' = interval_period
                 /\ probe_timeout' = probe_timeout
                 /\ timer_elapsed' = timer_elapsed
          /\ (until_tick' /= until_tick /\ pc' = pc) =>
                 until_tick' = until_tick - 1]_vars

\* the interval was raised from one second to two while the scheduler was
\* waiting for a tick; the wait in progress still ends after the one second
C19_Witness ==
    /\ pc = "idle"
    /\ last_result /= "none"
    /\ interval_period = 1
    /\ interval_between_attempts = 2
    /\ timer_elapsed
    /\ until_tick = 0

\* the invocation being handled does not come from the master server
Unauthorised == cmd_guild = None \/ cmd_guild /= master_server

\* the configuration, the runtime state and Data.toml stay as they are
ConfigAndStateUnchanged ==
    /\ config_vars' = config_vars
    /\ app_vars' = app_vars
    /\ saved_data' = saved_data

\* C20: every [M ONLY] handler begins with the master check, and for an
\* invocation from another guild or from outside any guild the check ends
\* the handler: neither the invocation nor the rejection changes the
\* configuration, the runtime state or the saved file.
C20_MasterOnlyRejected ==
    [][/\ (cmd_pc = "none" /\ cmd_pc' /= "none") =>
              /\ cmd_pc' = "master_check"
              /\ cmd_name' \in MasterOnlyCommands
              /\ ConfigAndStateUnchanged
       /\ (cmd_pc = "master_check" /\ Unauthorised /\ cmd_pc' /= cmd_pc) =>
              /\ cmd_pc' = "none"
              /\ ConfigAndStateUnchanged]_vars

\* /config reset from the second server, which is not the master, was
\* turned away: the handler has returned and the configuration still has
\* both servers registered
C20_Witness ==
    /\ cmd_pc = "none"
    /\ cmd_name = "reset"
    /\ cmd_guild = 2
    /\ master_server = 1
    /\ DOMAIN server_configs = Servers
    /\ saved_data.config = CurrentConfig

\* C15 as stated: whatever the template, the resource name and the role,
\* the output of replace_templates contains no literal placeholder.
C15_NoPlaceholderLeft ==
    tpl_pc = "done" =>
        /\ ~Contains(output, TEMPLATE_RESOURCE_NAME)
        /\ ~Contains(output, TEMPLATE_ROLE_PING)

\* the resource name is not empty and shares no character with the resource
\* placeholder
PlainName ==
    /\ resource_name /= <<>>
    /\ \A i \in 1..Len(resource_name) :
           \A j \in 1..Len(TEMPLATE_RESOURCE_NAME) :
               resource_name[i] /= TEMPLATE_RESOURCE_NAME[j]

\* C15, amended: the output never contains a literal role placeholder; it
\* contains no literal resource placeholder when the resource name is not
\* empty and shares no character with that placeholder; a template without
\* placeholders is returned as it is; and "%%RESOURCE%% is back, %%ROLE%%!"
\* with the name "API" and the role 42 gives "API is back, <@&42>!".
C15_PlaceholdersReplaced ==
    /\ tpl_pc = "done" =>
           /\ ~Contains(output, TEMPLATE_ROLE_PING)
           /\ PlainName => ~Contains(output, TEMPLATE_RESOURCE_NAME)
           /\ (~Contains(message, TEMPLATE_RESOURCE_NAME)
                   /\ ~Contains(message, TEMPLATE_ROLE_PING)) =>
                  output = message
    /\ replace_templates(<<"%", "R", "%", " is back, ", "%", "L", "%", "!">>,
                         <<"API">>, 42)
           = <<"API", " is back, ", "<@&", "42", ">", "!">>

\* a template with both placeholders, a plain name and a role: both were
\* replaced
C15_Witness ==
    /\ tpl_pc = "done"
    /\ message = <<"%", "R", "%", "%", "L", "%">>
    /\ resource_name = <<"a", "a">>
    /\ role_id = 42
    /\ output = <<"a", "a", "<@&", "42", ">">>

\* the first handler takes a step of /server remove
RemoveStep ==
    /\ cmd_name = "remove"
    /\ cmd_pc \in {"remove", "remove_all", "remove_all_write"}
    /\ cmd_pc' /= cmd_pc

\* the entry of the master server as the registry holds it (no entry when
\* the master server is not registered)
MasterEntry(configs) ==
    [s \in {cmd_guild} \cap DOMAIN configs |-> configs[s]]

\* C21: no step of /server remove takes the entry of the master server out
\* of the registry or changes it, and the step of option All that removes
\* the other entries leaves exactly the entry of the master server as it was
\* at that moment, whatever another handler did in between.
C21_MasterNeverRemoved ==
    [][/\ RemoveStep => MasterEntry(server_configs') = MasterEntry(server_configs)
       /\ (RemoveStep /\ cmd_pc = "remove_all_write") =>
              server_configs' = MasterEntry(server_configs)]_vars

\* the registry gained an entry in this step
ServerAdded == DOMAIN server_configs' \ DOMAIN server_configs /= {}

\* the first, or the second, handler takes its register step from guild g
RegisterStepOf(g) ==
    \/ cmd_pc = "register" /\ cmd_pc' /= cmd_pc /\ cmd_guild = g
    \/ peer_pc = "register" /\ peer_pc' /= peer_pc /\ peer_guild = g

\* C22: a register step adds exactly the calling server, with a fresh
\* configuration, when that server is not registered and the registry holds
\* fewer than max_servers entries, and changes nothing in the registry
\* otherwise; an entry is only ever added by such a step, and after it the
\* registry holds at most max_servers entries, whatever the other handler
\* does.
C22_RegisterWithinLimit ==
    [][/\ \A g \in Guilds :
              RegisterStepOf(g) =>
                  IF g /= None /\ g \notin DOMAIN server_configs
                        /\ Cardinality(DOMAIN server_configs) < max_servers
                  THEN /\ DOMAIN server_configs' = DOMAIN server_configs \cup {g}
                       /\ server_configs'[g] = NewServerConfig
                       /\ \A s \in DOMAIN server_configs :
                              server_configs'[s] = server_configs[s]
                  ELSE server_configs' = server_configs
       /\ ServerAdded =>
              /\ \E g \in Servers : RegisterStepOf(g)
              /\ Cardinality(DOMAIN server_configs') <= max_servers]_vars

\* two register calls were in flight at once with room for one server: the
\* first server got the place and is being saved, the second was refused
C22_Witness ==
    /\ max_servers = 1
    /\ DOMAIN server_configs = {1}
    /\ cmd_name = "register"
    /\ cmd_guild = 1
    /\ cmd_pc = "load_status"
    /\ peer_name = "register"
    /\ peer_guild = 2
    /\ peer_pc = "none"
    /\ commands_issued = 1
    /\ peers_issued = 1
    /\ saved_data.config.server_configs = <<>>

\* the announcement calls of the pass for server s
AnnouncementCalls(s) ==
    CallsOf(s, "send_down_message") \cup CallsOf(s, "send_up_message")

\* the announcement to server s failed in this pass
AnnouncementFailed(s) == \E i \in AnnouncementCalls(s) : ~calls[i][3]

\* C23: a failed announcement sends the pass on to the next server at once,
\* touching neither the pointers nor the messages; for a server whose
\* announcement failed no status message is fetched, deleted or sent in
\* that pass and its pointer stays as it was at the start of the pass, and
\* the servers after it are still visited.
C23_FailedAnnouncementSkipsReconcile ==
    /\ [](\A s \in Servers :
              AnnouncementFailed(s) =>
                  /\ ReconcileCalls(s) = {}
                  /\ ~(server_id = s /\ pc \in {"update_embed", "get_message",
                                               "delete_message", "send_embed"})
                  /\ used_messages[s] = pass_pointers[s]
                  /\ pc = "notify_end" =>
                         \A r \in DOMAIN server_configs :
                             Cardinality(CallsOf(r, "visit")) = 1)
    /\ [][(pc = "send_announcement" /\ pc' /= pc /\ ~calls'[Len(calls')][3]) =>
              /\ pc' = "for_servers"
              /\ used_messages' = used_messages
              /\ messages' = messages
              /\ held' = held]_vars

\* the second pass, Up -> Down: the down message to the first server
\* failed, its status message of the first pass is untouched and still
\* pointed at, and the second server got its new status message
C23_Witness ==
    /\ pc = "notify_end"
    /\ flips = 2
    /\ AnnouncementFailed(1)
    /\ used_messages[1] /= None
    /\ [id |-> used_messages[1], server |-> 1] \in messages
    /\ \E i \in CallsOf(2, "send_down_message") : calls[i][3]
    /\ \E i \in CallsOf(2, "send_embed") : calls[i][3]

\* the deletion of the stored status message of server s failed in this pass
DeleteFailed(s) == \E i \in CallsOf(s, "delete_message") : ~calls[i][3]

\* C24: a failed deletion of the fetched status message ends update_embed
\* for that server: the step returns to the loop over the servers, releases
\* the guard of the pointers and changes neither pointers nor messages; no
\* status message is sent to that server in the pass and its pointer stays
\* as it was at the start of the pass.
C24_FailedDeleteStops ==
    /\ [](\A s \in Servers :
              DeleteFailed(s) =>
                  /\ \E i \in CallsOf(s, "get_message") : calls[i][3]
                  /\ CallsOf(s, "send_embed") = {}
                  /\ ~(server_id = s /\ pc = "send_embed")
                  /\ used_messages[s] = pass_pointers[s]
                  /\ used_messages[s] /= None)
    /\ [][(pc = "delete_message" /\ pc' /= pc /\ ~calls'[Len(calls')][3]) =>
              /\ pc' = "for_servers"
              /\ used_messages' = used_messages
              /\ messages' = messages
              /\ MessagesLock \notin held']_vars

\* the old status message of the first server was fetched but could not be
\* deleted: it is still there and still pointed at, no new one was sent, and
\* the pass has gone on to the second server
C24_Witness ==
    /\ pc = "notify_end"
    /\ DeleteFailed(1)
    /\ CallsOf(1, "send_embed") = {}
    /\ [id |-> used_messages[1], server |-> 1] \in messages
    /\ Cardinality({m \in messages : m.server = 1}) = 1
    /\ \E i \in CallsOf(2, "send_embed") : calls[i][3]

\* the send of the new status message to server s failed in this pass
EmbedSendFailed(s) == \E i \in CallsOf(s, "send_embed") : ~calls[i][3]

\* C25: a pointer changes only in the step in which the send of a new
\* status message succeeds, and then to the id of that message, which exists
\* from that step on; the step in which the send fails changes no pointer,
\* so a server whose send failed has, on each of the three paths, the
\* pointer it had at the start of the pass.
C25_PointerOnlyAfterSuccessfulSend ==
    /\ [](\A s \in Servers :
              EmbedSendFailed(s) => used_messages[s] = pass_pointers[s])
    /\ [][/\ used_messages' /= used_messages =>
                 /\ pc = "send_embed"
                 /\ calls' = Append(calls, Call(server_id, "send_embed", TRUE))
                 /\ used_messages' =
                        [used_messages EXCEPT ![server_id] = next_message_id]
                 /\ [id |-> next_message_id, server |-> server_id]
                        \in messages' \ messages
          /\ (pc = "send_embed" /\ pc' /= pc /\ ~calls'[Len(calls')][3]) =>
                 /\ used_messages' = used_messages
                 /\ messages' = messages]_vars

\* the old status message of the first server was fetched and deleted, the
\* send of the new one failed: the pointer still holds the id of the deleted
\* message
C25_Witness ==
    /\ pc = "for_servers"
    /\ server_id = 1
    /\ \E i \in CallsOf(1, "delete_message") : calls[i][3]
    /\ EmbedSendFailed(1)
    /\ used_messages[1] /= None
    /\ used_messages[1] = pass_pointers[1]
    /\ used_messages[1] \in deleted_by_reconciler

\* server s was visited in this pass and has no channel configured, or the
\* fetch of its channel failed
ChannelUnavailable(s) ==
    /\ CallsOf(s, "visit") /= {}
    /\ \/ /\ s \in DOMAIN server_configs
          /\ server_configs[s] = None
       \/ \E i \in CallsOf(s, "get_channel") : ~calls[i][3]

\* C26: for a server without a configured channel no channel is fetched, and
\* for a server whose channel is not configured or could not be fetched
\* nothing is announced, no status message is fetched, deleted or sent, the
\* pass is not working on it any more and its pointer is as it was at the
\* start of the pass; the step that finds the channel missing or fails to
\* fetch it goes on to the next server.
C26_NoChannelNoMessages ==
    /\ [](\A s \in Servers :
              /\ (s \in DOMAIN server_configs /\ server_configs[s] = None) =>
                     CallsOf(s, "get_channel") = {}
              /\ ChannelUnavailable(s) =>
                     /\ AnnouncementCalls(s) = {}
                     /\ ReconcileCalls(s) = {}
                     /\ ~(server_id = s /\ pc \in NetworkCalls \ {"get_channel"})
                     /\ ~(server_id = s /\ pc = "update_embed")
                     /\ used_messages[s] = pass_pointers[s])
    /\ [][(pc = "get_channel" /\ pc' /= pc /\ ~calls'[Len(calls')][3]) =>
              /\ pc' = "for_servers"
              /\ used_messages' = used_messages
              /\ messages' = messages]_vars

\* the second pass ended: the first server has no channel and was skipped,
\* the channel of the second could not be fetched this time, and its status
\* message of the first pass is untouched
C26_Witness ==
    /\ pc = "notify_end"
    /\ flips = 2
    /\ server_configs[1] = None
    /\ CallsOf(1, "visit") /= {}
    /\ \E i \in CallsOf(2, "get_channel") : ~calls[i][3]
    /\ used_messages[2] /= None
    /\ [id |-> used_messages[2], server |-> 2] \in messages
    /\ Len(calls) = 3

\* the pass of the latest confirmed change is in progress
PassInProgress ==
    /\ Len(notify_log) = flips
    /\ passes_done = flips - 1

\* C27: in one pass no server sees a second channel fetch, announcement,
\* message fetch, deletion or embed send; a call is made or in flight only
\* within the single pass that follows a confirmed change, and a pass begins
\* only right after the status was changed, so what failed is not attempted
\* again before the status changes, and never if it does not.
C27_NoRetry ==
    /\ [](/\ \A s \in Servers :
                 /\ Cardinality(CallsOf(s, "get_channel")) <= 1
                 /\ Cardinality(AnnouncementCalls(s)) <= 1
                 /\ Cardinality(CallsOf(s, "get_message")) <= 1
                 /\ Cardinality(CallsOf(s, "delete_message")) <= 1
                 /\ Cardinality(CallsOf(s, "send_embed")) <= 1
          /\ pc \in NetworkCalls => PassInProgress)
    /\ [][/\ Len(calls') > Len(calls) => PassInProgress
          /\ notify_log' /= notify_log =>
                 /\ Len(notify_log') = flips
                 /\ passes_done = flips - 1
                 /\ status = sample
                 /\ status /= old_status
          /\ (messages' /= messages /\ external_deletes' = external_deletes) =>
                 PassInProgress]_vars

\* the first pass failed for the first server, which has a channel but got
\* no status message; since then a probe has matched the confirmed status,
\* nothing was attempted again, and the task waits for its next tick
C27_Witness ==
    /\ pc = "idle"
    /\ flips = 1
    /\ passes_done = 1
    /\ save_calls = 1
    /\ last_result = "match"
    /\ server_configs[1] /= None
    /\ used_messages[1] = None
    /\ {m \in messages : m.server = 1} = {}
    /\ used_messages[2] /= None

\* the first call for the server that follows s in the map, or the end of
\* the loop
VisitAfter(s) ==
    LET later == {r \in DOMAIN server_configs : r > s}
    IN  IF later = {}
        THEN <<None, "end">>
        ELSE <<CHOOSE r \in later : \A q \in later : r <= q, "visit">>

\* the first call of update_embed for server s, given the pointer it had
\* when the pass began
FirstReconcileCall(s) ==
    <<s, IF pass_pointers[s] /= None THEN "get_message" ELSE "send_embed">>

\* the server and the operation that follow the call c = (s, op, ok) in a
\* pass for old_status -> sample
CallAfter(c) ==
    LET s == c[1]
        op == c[2]
        ok == c[3]
    IN  CASE op = "visit" ->
                 IF server_configs[s] = None
                 THEN VisitAfter(s) ELSE <<s, "get_channel">>
          [] op = "get_channel" /\ ok ->
                 IF old_status = Unknown \/ sample = Unknown
                 THEN FirstReconcileCall(s)
                 ELSE <<s, IF sample = Down THEN "send_down_message"
                                            ELSE "send_up_message">>
          [] op \in {"send_down_message", "send_up_message"} /\ ok ->
                 FirstReconcileCall(s)
          [] op = "get_message" ->
                 <<s, IF ok THEN "delete_message" ELSE "send_embed">>
          [] op = "delete_message" /\ ok -> <<s, "send_embed">>
          [] OTHER -> VisitAfter(s)

\* C28: the calls of a pass are made server by server in ascending order of
\* the server ids, beginning with the smallest, and no call for a server
\* follows a call for a later one; every call is the one determined by the
\* call before it, its outcome, the transition and the pointers and the
\* configuration at the start of the pass, so two passes with the same
\* servers and the same outcomes make the same sequence of calls; the loop
\* ends only after the last server.
C28_AscendingAndDetermined ==
    /\ \A i \in 1..Len(calls) : \A j \in i..Len(calls) :
           calls[i][1] <= calls[j][1]
    /\ calls /= <<>> =>
           /\ calls[1][2] = "visit"
           /\ \A r \in DOMAIN server_configs : calls[1][1] <= r
    /\ \A i \in 1..(Len(calls) - 1) :
           <<calls[i + 1][1], calls[i + 1][2]>> = CallAfter(calls[i])
    /\ (pc = "notify_end" /\ calls /= <<>>) =>
           CallAfter(calls[Len(calls)])[2] = "end"
    /\ (pc = "notify_end" /\ calls = <<>>) => DOMAIN server_configs = {}

\* a pass for Up -> Down ended after the first server got its down message
\* and a new status message in place of the old one, and the second server,
\* whose old message could not be fetched, got both as well
C28_Witness ==
    /\ pc = "notify_end"
    /\ old_status = Up
    /\ sample = Down
    /\ Len(calls) = 11
    /\ \E i \in CallsOf(1, "delete_message") : calls[i][3]
    /\ \E i \in CallsOf(2, "get_message") : ~calls[i][3]
    /\ \E i \in CallsOf(2, "send_embed") : calls[i][3]

\* the servers the pass has visited so far
Visited == {calls[i][1] : i \in 1..Len(calls)}

\* C29: from its first step to its last a notification pass holds the read
\* guard of the configuration, and while it does the configuration is the
\* one found at the start of the pass: no command changes it.  The embed is
\* built once, before the first server is visited, from the name and the
\* address of that configuration, every status message sent in the pass
\* carries that embed, and the servers visited are those of that
\* configuration, all of them by the end.
C29_OneConfigurationPerPass ==
    /\ [](/\ ConfigLock \in held => CurrentConfig = pass_config
          /\ (ConfigLock \in held /\ pc /= "read_addr") =>
                 embed = generate_embed(pass_config.ping_config.resource_name,
                                        status,
                                        pass_config.ping_config.resource_addr,
                                        last_status_change)
          /\ \A e \in embeds_sent : e[2] = embed
          /\ Visited \subseteq DOMAIN pass_config.server_configs
          /\ pc = "notify_end" => Visited = DOMAIN pass_config.server_configs
          /\ (pc \in NetworkCalls \/ pc \in {"read_addr", "for_servers",
                                            "update_embed", "notify_end"}) =>
                 ConfigLock \in held)
    /\ [][(ConfigLock \in held /\ ConfigLock \in held') =>
              /\ CurrentConfig' = CurrentConfig
              /\ pc /= "read_addr" => embed' = embed]_vars

\* the pass has sent the same embed, built from the old name, to both
\* servers, while /config name, invoked in the master server and past its
\* master check, waits for the write guard of the configuration
C29_Witness ==
    /\ pc = "notify_end"
    /\ ConfigLock \in held
    /\ cmd_pc = "name"
    /\ cmd_guild = master_server
    /\ embeds_sent = {<<1, embed>>, <<2, embed>>}
    /\ embed.title = DEFAULT_RESOURCE_NAME \o <<" is online!">>
    /\ resource_name = DEFAULT_RESOURCE_NAME

\* the positions of the probe task inside update_status and inside
\* update_embed
UpdateStatusSteps ==
    {"update_status", "flip_counter", "flip_status", "flip_timestamp"}
UpdateEmbedSteps ==
    {"update_embed", "get_message", "delete_message", "send_embed"}

\* the confirmed status, the counter and the timestamp are left as they are
DebouncerStateUnchanged ==
    UNCHANGED <<status, attempts_before_notification, last_status_change>>

\* C30: a step that changes the confirmed status, the hysteresis counter or
\* the timestamp of the last change is a step of the probe task inside
\* update_status, and a step that changes a message pointer is a step of the
\* probe task inside update_embed.  A step of the scheduler loop (the timer,
\* the tick, the probe) and every step of a command handler, /config reset
\* and /server remove included, leave all four as they are.
C30_RuntimeStateWriters ==
    [][/\ ~DebouncerStateUnchanged =>
              (pc \in UpdateStatusSteps /\ pc' /= pc)
       /\ used_messages' /= used_messages =>
              (pc \in UpdateEmbedSteps /\ pc' /= pc)
       /\ (pc \in {"idle", "probing"} \/ cmd_pc' /= cmd_pc) =>
              (DebouncerStateUnchanged /\ UNCHANGED used_messages)]_vars

\* /config reset has replaced the configuration by the hardcoded defaults
\* after a confirmed change was announced: the registry is empty while the
\* status, the timestamp and the pointers of both servers are still there
C30_Witness ==
    /\ cmd_name = "none"
    /\ commands_issued > 0
    /\ DOMAIN server_configs = {}
    /\ master_server = None
    /\ status = Up
    /\ last_status_change > 0
    /\ \A s \in Servers : used_messages[s] /= None

\* the positions of the probe task inside notify_status_change, the calls
\* of update_embed included
PassSteps ==
    {"read_addr", "for_servers", "get_channel", "send_announcement",
     "notify_end", "panicked"} \cup UpdateEmbedSteps

\* C31: notify_status_change is entered only with an old status that
\* differs from the new one, in every pass that was ever started, so the
\* arm of its match that panics (Up to Up, Down to Down) is never taken.
C31_NoUnreachableArm ==
    /\ pc /= "panicked"
    /\ pc \in PassSteps \cup {"notify_status_change"} => old_status /= sample
    /\ \A i \in 1..Len(notify_log) : notify_log[i][1] /= notify_log[i][2]
    /\ \A old, new \in {Up, Down, Unknown} :
           old /= new => TransitionArm(old, new) /= "panicked"

\* a second pass, entered with (Up, Down), has taken the announcement arm of
\* the match for a server
C31_Witness ==
    /\ pc = "send_announcement"
    /\ old_status = Up
    /\ sample = Down
    /\ Len(notify_log) = 2
    /\ notify_log[2] = <<Up, Down>>

\* the two replacements of replace_templates in the opposite order
RoleThenResource(msg, name, id) ==
    Replace(Replace(msg, TEMPLATE_ROLE_PING, RolePing(id)),
            TEMPLATE_RESOURCE_NAME, name)

\* C32: whatever the template, the resource name and the role, the text
\* replace_templates returns is the text obtained by replacing the role
\* placeholder first and the resource placeholder second.
C32_OrderIndependent ==
    tpl_pc = "done" => output = RoleThenResource(message, resource_name, role_id)

\* C32, the inputs on which the two orders agree: a resource name without
\* the delimiter of the placeholders, in a template where the end of a
\* resource placeholder is not the beginning of a role placeholder nor the
\* other way round.
C32_OrderIndependentOnPlainInputs ==
    (/\ tpl_pc = "done"
     /\ ~Contains(resource_name, <<"%">>)
     /\ ~Contains(message, <<"%", "R", "%", "L", "%">>)
     /\ ~Contains(message, <<"%", "L", "%", "R", "%">>)) =>
        output = RoleThenResource(message, resource_name, role_id)

\* the template is the resource placeholder and the resource name is the
\* text of the role placeholder: the name that was put in is replaced in
\* turn by the mention of the role, which the opposite order does not do
C32_NameReplacedAgain ==
    /\ tpl_pc = "done"
    /\ message = TEMPLATE_RESOURCE_NAME
    /\ resource_name = TEMPLATE_ROLE_PING
    /\ role_id = 42
    /\ output = RolePing(42)
    /\ RoleThenResource(message, resource_name, role_id) = TEMPLATE_ROLE_PING

\* C33: every tick of the probe loop adds exactly 1 to the 16-bit sequence
\* number, 65535 is followed by 0, and the loop goes on to its probe: the
\* probe task never ends at the wrap-around.
C33_SequenceWraps ==
    /\ [](pc /= "panicked")
    /\ [][(pc = "idle" /\ pc' /= pc) =>
              /\ icmp_sequence' = (icmp_sequence + 1) % U16Modulus
              /\ pc' = "probing"]_vars

\* in a build without overflow checks the sequence number went from 65535
\* to 0 and the probe of that tick is in flight
C33_Wrapped ==
    /\ ~overflow_checks
    /\ icmp_sequence = 0
    /\ pc = "probing"
    /\ flips > 0

\* in a build with overflow checks the probe task has ended at the tick
\* that found the sequence number at 65535
C33_Panicked ==
    /\ overflow_checks
    /\ icmp_sequence = U16Modulus - 1
    /\ pc = "panicked"

\* the probe task waits at its second read() of the configuration behind a
\* queued write(), and that write() waits for the guard the probe task
\* holds: neither can ever go on
ConfigDeadlock ==
    /\ pc = "read_addr"
    /\ ConfigLock \in held
    /\ WriterWaiting

\* C34: the probe task never deadlocks on the configuration lock: whenever
\* it asks for the second read guard while holding the first, with or
\* without a write() of a command queued in between, the read is granted.
C34_NoConfigDeadlock == ~ConfigDeadlock

\* with no write() queued in between, the second read was granted and the
\* pass has completed for both servers while /config name waits for its
\* turn
C34_PassCompleted ==
    /\ pc = "notify_end"
    /\ cmd_pc = "name"
    /\ write_queued = commands_issued
    /\ Cardinality(embeds_sent) = Cardinality(Servers)

\* from some point on every sample is S, then from some point on the
\* confirmed status is S
SettlesOn(S) == <>[](sample = S) => <>[](status = S)

\* C35: with the threshold left alone, when from some point on every probe
\* gives the same status, the confirmed status eventually is that status
\* and stays it.
C35_StatusSettles == \A S \in ResourceStatus : SettlesOn(S)

\* C35 for a program whose sequence number does not overflow (a build
\* without overflow checks, or fewer than 65536 probes)
C35_StatusSettlesWithoutPanic == (~overflow_checks) => C35_StatusSettles

\* the probe task ended at the overflow of the sequence number after a Down
\* sample that the threshold had not yet confirmed
C35_NeverConfirmed ==
    /\ pc = "panicked"
    /\ sample = Down
    /\ status = Unknown
    /\ attempts_before_notification = 1

\* update_status takes its first step, on a sample that differs from the
\* confirmed status
DifferingSampleStep ==
    /\ pc = "update_status"
    /\ pc' /= pc
    /\ sample /= status

\* C36: every sample that differs from the confirmed status advances the
\* one counter by 1, whichever status it carries and whatever the samples
\* before it were; whether the status flips is decided by the counter
\* alone, and the flip adopts the status of the sample at hand.
C36_CounterIgnoresWhichStatus ==
    [][/\ DifferingSampleStep =>
              /\ attempts_before_notification' =
                     (attempts_before_notification + 1) % U8Modulus
              /\ (pc' = "flip_counter") <=>
                     (attempts_before_notification >= Required)
              /\ pc' \in {"flip_counter", "idle"}
       /\ (pc = "flip_status" /\ pc' /= pc) => status' = sample]_vars

\* Unknown was confirmed over Up by a single Unknown sample: the sample
\* before it, which had advanced the counter, was Down
C36_Witness ==
    /\ pc = "flip_timestamp"
    /\ old_status = Up
    /\ status = Unknown
    /\ sample = Unknown
    /\ preceding_sample = Down
    /\ Required = 1

\* no command is being handled and no notification pass is in progress
Quiescent ==
    /\ cmd_pc = "none"
    /\ peer_pc = "none"
    /\ ConfigLock \notin held

\* C37: a step of a handler that changes the configuration is followed by
\* save_data before the handler returns, and whenever no command and no
\* pass is in progress the configuration in Data.toml is the one in memory.
C37_ConfigPersisted ==
    /\ [](Quiescent => saved_data.config = CurrentConfig)
    /\ [][(cmd_pc' /= cmd_pc /\ CurrentConfig' /= CurrentConfig) =>
              cmd_pc' = "load_status"]_vars

\* both handlers have returned after successful writes of Data.toml, and
\* the file lacks the limit the first handler has set and saved: the
\* second handler, serving /config channel, wrote the snapshot it had taken
\* before
C37_LostUpdate ==
    /\ Quiescent
    /\ commands_issued = 1
    /\ peers_issued = 1
    /\ peer_name = "channel"
    /\ master_server = 1
    /\ saved_data.config.max_servers /= max_servers
    /\ saved_data.config.server_configs = server_configs

\* /config reset found no Config.toml, replaced the configuration by the
\* hardcoded defaults and returned without save_data
C37_ResetNotSaved ==
    /\ Quiescent
    /\ commands_issued = 1
    /\ peers_issued = 0
    /\ master_server = None
    /\ max_servers = 0
    /\ saved_data.config.master_server = 1

\* C38: with the threshold left alone the counter never exceeds it, and the
\* counter is 0 once a flip was confirmed and once a matching sample was
\* handled.
C38_CounterWithinThreshold ==
    /\ attempts_before_notification <= Required
    /\ (pc = "idle" /\ last_result = "match") =>
           attempts_before_notification = 0
    /\ pc \in {"flip_status", "flip_timestamp", "notify_status_change"}
                 \cup PassSteps \cup {"save_data", "save_to_file"} =>
           attempts_before_notification = 0

\* what does hold: the counter is at most the threshold while update_status
\* waits for a sample, one more between the fetch_add and the store(0) of
\* the sample that confirms a flip, and 0 after a flip and after a matching
\* sample
C38_CounterWithinThresholdPlusOne ==
    /\ attempts_before_notification <= Required + 1
    /\ attempts_before_notification = Required + 1 => pc = "flip_counter"
    /\ (pc = "idle" /\ last_result = "match") =>
           attempts_before_notification = 0
    /\ pc \in {"flip_status", "flip_timestamp", "notify_status_change"}
                 \cup PassSteps \cup {"save_data", "save_to_file"} =>
           attempts_before_notification = 0

\* the sample that confirms the flip has brought the counter one above the
\* threshold; the store(0) has not run yet
C38_AboveThreshold ==
    /\ pc = "flip_counter"
    /\ Required = 2
    /\ attempts_before_notification = 3
    /\ previous_attempts = 2

\* with the largest threshold a u8 can hold, the fetch_add of the
\* confirming sample wraps the counter to 0
C38_WrapsAtLargestThreshold ==
    /\ FetchAdd(U8Modulus - 1) = 0
    /\ FlipConfirmed(U8Modulus - 1, U8Modulus - 1)

=============================================================================
